---------------------------- MODULE Spec2Model ----------------------------
(***************************************************************************)
(* A model of the 6502 instruction execution engine of src/src/cpu.rs.     *)
(*                                                                         *)
(* The processor (struct Cpu) is the state; execute_instruction is the one *)
(* operation, modelled by the operator of the same name and split into one *)
(* action per mnemonic.  Rust's `+`, `-`, `+=` and `-=` on fixed-width     *)
(* integers panic on overflow when the crate is built with overflow checks *)
(* (the default of `cargo build` and `cargo test`) and wrap when it is     *)
(* built without them (`--release`): overflow_checks is the build, chosen  *)
(* once and never changed.  Indexing the memory array out of bounds panics *)
(* in every build.  A panic leaves the processor as it was at the point of *)
(* the panic and ends the run (fault # "none").                            *)
(*                                                                         *)
(* Rust's arguments[0] and arguments[1] are arguments[1] and arguments[2]  *)
(* here (TLA+ sequences start at 1).                                       *)
(***************************************************************************)
EXTENDS Integers, Sequences, FiniteSets, TLC

VARIABLES
    memory,                         \* Cpu.memory, as the map of its nonzero cells
    program_counter,                \* Cpu.program_counter : u16
    stack_pointer,                  \* Cpu.stack_pointer : u8
    accumulator,                    \* Cpu.accumulator : u8
    index_x,                        \* Cpu.index_x : u8
    index_y,                        \* Cpu.index_y : u8
    processor_status,               \* Cpu.processor_status : u8
    cycle,                          \* Cpu.cycle : u32
    change_interrupt_disable_flag,  \* Cpu.change_interrupt_disable_flag : i8
    fault,                          \* "none", or the panic that ended the run
    overflow_checks,                \* the build: TRUE when `+`/`-` overflow panics
    history,                        \* the instructions executed, each with the registers before it
    executed                        \* how many instructions were executed

vars == <<memory, program_counter, stack_pointer, accumulator, index_x, index_y,
          processor_status, cycle, change_interrupt_disable_flag, fault,
          overflow_checks, history, executed>>

---------------------------------------------------------------------------
(* Fixed-width arithmetic *)

Byte == 0..255
Word == 0..65535

\* v as a w-bit unsigned integer (what a release build keeps of an overflowing result)
Wrap(v, w) == v % (2 ^ w)

\* bit i of x: (x >> i) & 1
Bit(x, i) == (x \div (2 ^ i)) % 2

RECURSIVE BitXorN(_, _, _)
BitXorN(a, b, n) ==
    IF n = 0 THEN 0
    ELSE (((a % 2) + (b % 2)) % 2) + 2 * BitXorN(a \div 2, b \div 2, n - 1)

RECURSIVE BitAndN(_, _, _)
BitAndN(a, b, n) ==
    IF n = 0 THEN 0
    ELSE ((a % 2) * (b % 2)) + 2 * BitAndN(a \div 2, b \div 2, n - 1)

RECURSIVE BitOrN(_, _, _)
BitOrN(a, b, n) ==
    IF n = 0 THEN 0
    ELSE (IF (a % 2) + (b % 2) > 0 THEN 1 ELSE 0) + 2 * BitOrN(a \div 2, b \div 2, n - 1)

\* Rust's ^, & and | on operands of up to 16 bits
BitXor(a, b) == BitXorN(a, b, 16)
BitAnd(a, b) == BitAndN(a, b, 16)
BitOr(a, b) == BitOrN(a, b, 16)

\* Rust's !v on a u8
BitNot8(v) == 255 - v

\* u8::cast_signed() followed by `as u16`: the sign-extended offset
cast_signed_as_u16(value) == IF value >= 128 THEN 65280 + value ELSE value

\* u16::to_be_bytes and u16::from_be_bytes
to_be_bytes(val) == <<val \div 256, val % 256>>
from_be_bytes(high, low) == high * 256 + low

---------------------------------------------------------------------------
(* Results of an expression that may panic *)

Ok(v) == [fault |-> "none", val |-> v]
Panic(kind) == [fault |-> kind, val |-> 0]

\* the first panic of two argument expressions, evaluated left to right
FirstFault(r1, r2) == IF r1.fault # "none" THEN r1.fault ELSE r2.fault

\* `a + b` or `a - b` with the exact result v, in a w-bit unsigned type
Checked(c, v, w) ==
    IF v >= 0 /\ v < 2 ^ w THEN Ok(v)
    ELSE IF c.overflow_checks THEN Panic("overflow")
    ELSE Ok(Wrap(v, w))

\* the processor, stopped by a panic
Fault(c, kind) == [c EXCEPT !.fault = kind]

---------------------------------------------------------------------------
(* Memory: [u8; 0xFFFF], all zero at construction *)

MemorySize == 65535

Read(m, a) == IF a \in DOMAIN m THEN m[a] ELSE 0

Store(m, a, v) ==
    IF v = 0 THEN [x \in (DOMAIN m) \ {a} |-> m[x]]
    ELSE [x \in (DOMAIN m) \cup {a} |-> IF x = a THEN v ELSE m[x]]

\* self.memory[i], as a value
Index(c, i) == IF i >= MemorySize THEN Panic("bounds") ELSE Ok(Read(c.memory, i))

\* self.memory[i] = v
IndexSet(c, i, v) ==
    IF c.fault # "none" THEN c
    ELSE IF i >= MemorySize THEN Fault(c, "bounds")
    ELSE [c EXCEPT !.memory = Store(@, i, v)]

---------------------------------------------------------------------------
(* Processor status *)

get_flag(c, offset) == Bit(c.processor_status, offset) = 1

set_flag(c, val, offset) ==
    IF c.fault # "none" THEN c
    ELSE
    [c EXCEPT !.processor_status =
        IF val THEN (IF Bit(@, offset) = 1 THEN @ ELSE @ + 2 ^ offset)
        ELSE (IF Bit(@, offset) = 1 THEN @ - 2 ^ offset ELSE @)]

get_flag_carry(c) == get_flag(c, 6)
set_flag_carry(c, val) == set_flag(c, val, 6)
set_flag_carry_by_val(c, val) == set_flag_carry(c, val > 255)

get_flag_zero(c) == get_flag(c, 5)
set_flag_zero(c, val) == set_flag(c, val, 5)
set_flag_zero_by_val(c, val) == set_flag_zero(c, val = 0)

get_flag_overflow(c) == get_flag(c, 1)
set_flag_overflow(c, val) == set_flag(c, val, 1)
set_flag_overflow_by_val(c, val) == set_flag_overflow(c, Bit(val, 6) = 1)

get_flag_negative(c) == get_flag(c, 0)
set_flag_negative(c, val) == set_flag(c, val, 0)
set_flag_negative_by_val(c, val) == set_flag_negative(c, Bit(val, 7) = 1)

get_flag_decimal(c) == get_flag(c, 3)
set_flag_decimal(c, val) == set_flag(c, val, 3)

get_flag_interrupt(c) == get_flag(c, 4)
set_flag_interrupt(c, val) == set_flag(c, val, 4)

B(b) == IF b THEN 1 ELSE 0

\* get_processor_status without the two unused bits forced to 1
get_processor_status_without_unused_bits(c) ==
    128 * B(get_flag_negative(c)) + 64 * B(get_flag_overflow(c))
       + 8 * B(get_flag_decimal(c)) + 4 * B(get_flag_interrupt(c))
       + 2 * B(get_flag_zero(c)) + B(get_flag_carry(c))

get_processor_status(c) ==
    48 + 128 * B(get_flag_negative(c)) + 64 * B(get_flag_overflow(c))
       + 8 * B(get_flag_decimal(c)) + 4 * B(get_flag_interrupt(c))
       + 2 * B(get_flag_zero(c)) + B(get_flag_carry(c))

\* (flags << n) & 1 on a u8
ShlAnd1(flags, n) == BitAnd(Wrap(flags * 2 ^ n, 8), 1)

set_processor_status(c, flags, delay) ==
    LET c1 == set_flag_carry(c, BitAnd(flags, 1) = 1)
        c2 == set_flag_zero(c1, ShlAnd1(flags, 1) = 1)
        c3 == IF delay
              THEN [c2 EXCEPT !.change_interrupt_disable_flag = ShlAnd1(flags, 2)]
              ELSE set_flag_interrupt(c2, ShlAnd1(flags, 2) = 1)
        c4 == set_flag_decimal(c3, ShlAnd1(flags, 3) = 1)
        c5 == set_flag_overflow(c4, ShlAnd1(flags, 6) = 1)
    IN  set_flag_negative(c5, ShlAnd1(flags, 7) = 1)

---------------------------------------------------------------------------
(* Stack *)

\* self.cycle += n
AddCycles(c, n) == IF c.fault # "none" THEN c ELSE [c EXCEPT !.cycle = @ + n]

\* push that writes the zero-page cell at the stack pointer
push_to_zero_page(c, val) ==
    IF c.fault # "none" THEN c
    ELSE LET c1 == IndexSet(c, c.stack_pointer, val)
             sp == Checked(c, c.stack_pointer - 1, 8)
         IN  IF sp.fault # "none" THEN Fault(c1, sp.fault)
             ELSE [c1 EXCEPT !.stack_pointer = sp.val]

push(c, val) ==
    IF c.fault # "none" THEN c
    ELSE LET c1 == IndexSet(c, c.stack_pointer + 256, val)
             sp == Checked(c, c.stack_pointer - 1, 8)
         IN  IF sp.fault # "none" THEN Fault(c1, sp.fault)
             ELSE [c1 EXCEPT !.stack_pointer = sp.val]

\* pop, as the processor after it and the byte it returns
pop_cpu(c) ==
    IF c.fault # "none" THEN c
    ELSE LET sp == Checked(c, c.stack_pointer + 1, 8)
         IN  IF sp.fault # "none" THEN Fault(c, sp.fault)
             ELSE [c EXCEPT !.stack_pointer = sp.val]

pop_val(c) == Read(c.memory, Wrap(c.stack_pointer + 1, 8) + 256)

---------------------------------------------------------------------------
(* Addressing *)

\* r, or what F makes of its value when r did not panic
Then(r, F(_)) == IF r.fault # "none" THEN r ELSE F(r.val)

\* Instruction::get_absolute_addr
get_absolute_addr(inst) == BitOr(inst.arguments[1] * 256, inst.arguments[2])

get_addr_zero_index(c, arg) == Ok(arg % 255)
get_addr_zero(c, arg) == Then(get_addr_zero_index(c, arg), LAMBDA i : Index(c, i))
set_addr_zero(c, arg, value) == IndexSet(c, get_addr_zero_index(c, arg).val, value)

get_addr_zero_x_index(c, arg) ==
    Then(Checked(c, arg + c.index_x, 8), LAMBDA s : Ok(s % 255))
get_addr_zero_x(c, arg) == Then(get_addr_zero_x_index(c, arg), LAMBDA i : Index(c, i))
\* set_addr_zero_x that leaves index_x out of the address
set_addr_zero_x_unindexed(c, arg, value) ==
    IndexSet(c, get_addr_zero_index(c, arg).val, value)

set_addr_zero_x(c, arg, value) ==
    LET i == get_addr_zero_x_index(c, arg)
    IN  IF i.fault # "none" THEN Fault(c, i.fault) ELSE IndexSet(c, i.val, value)

get_addr_zero_y_index(c, arg) ==
    Then(Checked(c, arg + c.index_y, 8), LAMBDA s : Ok(s % 255))
get_addr_zero_y(c, arg) == Then(get_addr_zero_y_index(c, arg), LAMBDA i : Index(c, i))

get_addr_absolute(c, arg) == Index(c, arg)
set_addr_absolute(c, arg, value) == IndexSet(c, arg, value)

get_addr_absolute_x(c, arg) ==
    Then(Checked(c, arg + c.index_x, 16), LAMBDA a : Index(c, a))
set_addr_absolute_x(c, arg, value) ==
    LET a == Checked(c, arg + c.index_x, 16)
    IN  IF a.fault # "none" THEN Fault(c, a.fault) ELSE IndexSet(c, a.val, value)
get_addr_absolute_y(c, arg) ==
    Then(Checked(c, arg + c.index_y, 16), LAMBDA a : Index(c, a))

\* (Indirect,X): the high byte's cell is computed first, then the low byte's
get_addr_indexed_indirect_index(c, arg) ==
    Then(Checked(c, arg + c.index_x, 8), LAMBDA s :
    Then(Checked(c, s + 1, 8), LAMBDA s1 :
        Ok(BitOr(Read(c.memory, BitAnd(s1, 255)) * 256,
                 Read(c.memory, BitAnd(s, 255))))))
get_addr_indexed_indirect(c, arg) ==
    Then(get_addr_indexed_indirect_index(c, arg), LAMBDA a : Index(c, a))

\* (Indirect),Y
get_addr_indirect_indexed_index(c, arg) ==
    Checked(c, BitOr(Read(c.memory, BitAnd(arg + 1, 255)) * 256, Read(c.memory, arg))
               + c.index_y, 16)
get_addr_indirect_indexed(c, arg) ==
    Then(get_addr_indirect_indexed_index(c, arg), LAMBDA a : Index(c, a))

increment_if_crossed_absolute(c, base, addr, inc) ==
    Then(Checked(c, addr + inc, 16), LAMBDA s :
        IF BitAnd(s, 65280) = BitAnd(addr, 65280) THEN Ok(base) ELSE Ok(base + 1))

increment_if_crossed_indirect_indexed(c, base, addr) ==
    Then(get_addr_indirect_indexed_index(c, addr), LAMBDA indirect_indexed :
    Then(Checked(c, indirect_indexed - c.index_y, 16), LAMBDA d :
        IF BitAnd(d, 65280) = BitAnd(indirect_indexed, 65280)
        THEN Ok(base) ELSE Ok(base + 1)))

---------------------------------------------------------------------------
(* Executors.  m (the operand), addr and cycles are results of the caller's *)
(* argument expressions: a panic in one of them ends the instruction before *)
(* the executor runs.                                                       *)

\* execute_adc that adjusts the sum to binary-coded decimal when the decimal
\* flag is set
execute_adc_decimal(c, m, cycles) ==
    IF FirstFault(m, cycles) # "none" THEN Fault(c, FirstFault(m, cycles))
    ELSE LET binary == c.accumulator + m.val + B(get_flag_carry(c))
             low == (c.accumulator % 16) + (m.val % 16) + B(get_flag_carry(c))
             result == IF get_flag_decimal(c) /\ low > 9 THEN binary + 6 ELSE binary
             c1 == set_flag_carry_by_val(c, result)
             c2 == set_flag_zero_by_val(c1, Wrap(result, 8))
             c3 == set_flag_overflow(c2,
                     BitAnd(BitAnd(BitXor(result, c.accumulator), BitXor(result, m.val)),
                            128) = 128)
             c4 == set_flag_negative_by_val(c3, Wrap(result, 8))
         IN  AddCycles([c4 EXCEPT !.accumulator = BitAnd(result, 255)], cycles.val)

\* execute_adc without the carry flag added in
execute_adc_without_carry_in(c, m, cycles) ==
    IF FirstFault(m, cycles) # "none" THEN Fault(c, FirstFault(m, cycles))
    ELSE LET result == c.accumulator + m.val
             c1 == set_flag_carry_by_val(c, result)
             c2 == set_flag_zero_by_val(c1, Wrap(result, 8))
             c3 == set_flag_overflow(c2,
                     BitAnd(BitAnd(BitXor(result, c.accumulator), BitXor(result, m.val)),
                            128) = 128)
             c4 == set_flag_negative_by_val(c3, Wrap(result, 8))
         IN  AddCycles([c4 EXCEPT !.accumulator = BitAnd(result, 255)], cycles.val)

execute_adc(c, m, cycles) ==
    IF FirstFault(m, cycles) # "none" THEN Fault(c, FirstFault(m, cycles))
    ELSE LET result == c.accumulator + m.val + B(get_flag_carry(c))
             c1 == set_flag_carry_by_val(c, result)
             c2 == set_flag_zero_by_val(c1, Wrap(result, 8))
             c3 == set_flag_overflow(c2,
                     BitAnd(BitAnd(BitXor(result, c.accumulator), BitXor(result, m.val)),
                            128) = 128)
             c4 == set_flag_negative_by_val(c3, Wrap(result, 8))
         IN  AddCycles([c4 EXCEPT !.accumulator = BitAnd(result, 255)], cycles.val)

execute_and(c, m, cycles) ==
    IF FirstFault(m, cycles) # "none" THEN Fault(c, FirstFault(m, cycles))
    ELSE LET result == BitAnd(c.accumulator, m.val)
             c1 == set_flag_zero_by_val(c, result)
             c2 == set_flag_negative_by_val(c1, result)
         IN  AddCycles([c2 EXCEPT !.accumulator = result], cycles.val)

\* execute_bit that keeps A & M in the accumulator, as AND does
execute_bit_keeping_result(c, m, cycles) ==
    IF FirstFault(m, cycles) # "none" THEN Fault(c, FirstFault(m, cycles))
    ELSE LET result == BitAnd(c.accumulator, m.val)
             c1 == set_flag_zero_by_val(c, result)
             c2 == set_flag_overflow_by_val(c1, result)
             c3 == set_flag_negative_by_val(c2, result)
         IN  AddCycles([c3 EXCEPT !.accumulator = result], cycles.val)

execute_bit(c, m, cycles) ==
    IF FirstFault(m, cycles) # "none" THEN Fault(c, FirstFault(m, cycles))
    ELSE LET result == BitAnd(c.accumulator, m.val)
             c1 == set_flag_zero_by_val(c, result)
             c2 == set_flag_overflow_by_val(c1, result)
             c3 == set_flag_negative_by_val(c2, result)
         IN  AddCycles(c3, cycles.val)

execute_cmp(c, m, cycles) ==
    IF FirstFault(m, cycles) # "none" THEN Fault(c, FirstFault(m, cycles))
    ELSE LET c1 == set_flag_carry(c, c.accumulator >= m.val)
             c2 == set_flag_zero(c1, c.accumulator = m.val)
             c3 == set_flag_negative(c2, c.accumulator < m.val)
         IN  AddCycles(c3, cycles.val)

execute_cmx(c, m, cycles) ==
    IF FirstFault(m, cycles) # "none" THEN Fault(c, FirstFault(m, cycles))
    ELSE LET c1 == set_flag_carry(c, c.index_x >= m.val)
             c2 == set_flag_zero(c1, c.index_x = m.val)
             c3 == set_flag_negative(c2, c.index_x < m.val)
         IN  AddCycles(c3, cycles.val)

execute_cmy(c, m, cycles) ==
    IF FirstFault(m, cycles) # "none" THEN Fault(c, FirstFault(m, cycles))
    ELSE LET c1 == set_flag_carry(c, c.index_y >= m.val)
             c2 == set_flag_zero(c1, c.index_y = m.val)
             c3 == set_flag_negative(c2, c.index_y < m.val)
         IN  AddCycles(c3, cycles.val)

execute_dec(c, addr, cycles) ==
    IF FirstFault(addr, cycles) # "none" THEN Fault(c, FirstFault(addr, cycles))
    ELSE LET old == Index(c, addr.val)
             result == Checked(c, old.val - 1, 8)
         IN  IF FirstFault(old, result) # "none" THEN Fault(c, FirstFault(old, result))
             ELSE LET c1 == IndexSet(c, addr.val, result.val)
                      c2 == set_flag_zero_by_val(c1, result.val)
                      c3 == set_flag_negative_by_val(c2, result.val)
                  IN  AddCycles(c3, cycles.val)

execute_inc(c, addr, cycles) ==
    IF FirstFault(addr, cycles) # "none" THEN Fault(c, FirstFault(addr, cycles))
    ELSE LET old == Index(c, addr.val)
             result == Checked(c, old.val + 1, 8)
         IN  IF FirstFault(old, result) # "none" THEN Fault(c, FirstFault(old, result))
             ELSE LET c1 == IndexSet(c, addr.val, result.val)
                      c2 == set_flag_zero_by_val(c1, result.val)
                      c3 == set_flag_negative_by_val(c2, result.val)
                  IN  AddCycles(c3, cycles.val)

execute_eor(c, m, cycles) ==
    IF FirstFault(m, cycles) # "none" THEN Fault(c, FirstFault(m, cycles))
    ELSE LET c1 == [c EXCEPT !.accumulator = BitXor(@, m.val)]
             c2 == set_flag_zero_by_val(c1, c1.accumulator)
             c3 == set_flag_negative_by_val(c2, c1.accumulator)
         IN  AddCycles(c3, cycles.val)

execute_lda(c, m, cycles) ==
    IF FirstFault(m, cycles) # "none" THEN Fault(c, FirstFault(m, cycles))
    ELSE LET c1 == [c EXCEPT !.accumulator = m.val]
             c2 == set_flag_zero_by_val(c1, c1.accumulator)
             c3 == set_flag_negative_by_val(c2, c1.accumulator)
         IN  AddCycles(c3, cycles.val)

execute_ldx(c, m, cycles) ==
    IF FirstFault(m, cycles) # "none" THEN Fault(c, FirstFault(m, cycles))
    ELSE LET c1 == [c EXCEPT !.index_x = m.val]
             c2 == set_flag_zero_by_val(c1, c1.index_x)
             c3 == set_flag_negative_by_val(c2, c1.index_x)
         IN  AddCycles(c3, cycles.val)

execute_ldy(c, m, cycles) ==
    IF FirstFault(m, cycles) # "none" THEN Fault(c, FirstFault(m, cycles))
    ELSE LET c1 == [c EXCEPT !.index_y = m.val]
             c2 == set_flag_zero_by_val(c1, c1.index_y)
             c3 == set_flag_negative_by_val(c2, c1.index_y)
         IN  AddCycles(c3, cycles.val)

execute_ora(c, m, cycles) ==
    IF FirstFault(m, cycles) # "none" THEN Fault(c, FirstFault(m, cycles))
    ELSE LET c1 == [c EXCEPT !.accumulator = BitOr(@, m.val)]
             c2 == set_flag_zero_by_val(c1, c1.accumulator)
             c3 == set_flag_negative_by_val(c2, c1.accumulator)
         IN  AddCycles(c3, cycles.val)

execute_sbc(c, m, cycles) ==
    IF FirstFault(m, cycles) # "none" THEN Fault(c, FirstFault(m, cycles))
    ELSE LET acc == c.accumulator
             value == m.val
             \* acc as i16 + (!value) as i16 + carry as i16: 0..511, no overflow
             result == acc + BitNot8(value) + B(get_flag_carry(c))
             c1 == [c EXCEPT !.accumulator = BitAnd(result, 255)]
             c2 == set_flag_carry(c1, ~(result < 0))
             c3 == set_flag_zero(c2, result = 0)
             c4 == set_flag_overflow(c3,
                     BitAnd(BitAnd(BitXor(result, acc), BitAnd(result, BitNot8(value))),
                            128) = 128)
             c5 == set_flag_negative_by_val(c4, c1.accumulator)
         IN  AddCycles(c5, cycles.val)

\* execute_st that sets zero and negative from the value stored, as a load
\* does
execute_st_setting_flags(c, addr, value, cycles) ==
    IF addr.fault # "none" THEN Fault(c, addr.fault)
    ELSE LET c1 == IndexSet(c, addr.val, value)
             c2 == set_flag_zero_by_val(c1, value)
             c3 == set_flag_negative_by_val(c2, value)
         IN  AddCycles(c3, cycles)

execute_st(c, addr, value, cycles) ==
    IF addr.fault # "none" THEN Fault(c, addr.fault)
    ELSE AddCycles(IndexSet(c, addr.val, value), cycles)

\* The closure a shift or rotate is given to write its result back:
\* |cpu, r| cpu.accumulator = r, or |cpu, r| cpu.set_addr_*(.., r)
WriteBack(c, dest, r) ==
    IF c.fault # "none" THEN c
    ELSE CASE dest.kind = "accumulator" -> [c EXCEPT !.accumulator = r]
           [] dest.kind = "zero" -> set_addr_zero(c, dest.arg, r)
           [] dest.kind = "zero_x" -> set_addr_zero_x(c, dest.arg, r)
           [] dest.kind = "absolute" -> set_addr_absolute(c, dest.arg, r)
           [] dest.kind = "absolute_x" -> set_addr_absolute_x(c, dest.arg, r)

Acc == [kind |-> "accumulator", arg |-> 0]
Dest(kind, arg) == [kind |-> kind, arg |-> arg]

execute_asl(c, value, r, cycles) ==
    IF value.fault # "none" THEN Fault(c, value.fault)
    ELSE LET result == Wrap(value.val * 2, 8)
             c1 == set_flag_carry(c, BitAnd(value.val \div 128, 1) = 1)
             c2 == set_flag_zero(c1, result = 0)
             c3 == set_flag_negative_by_val(c2, result)
         IN  AddCycles(WriteBack(c3, r, result), cycles)

execute_lsr(c, value, r, cycles) ==
    IF value.fault # "none" THEN Fault(c, value.fault)
    ELSE LET result == BitAnd(value.val \div 2, BitNot8(1 \div 2))
             c1 == set_flag_carry(c, FALSE)
             c2 == set_flag_zero(c1, result = 0)
             c3 == set_flag_negative(c2, FALSE)
         IN  AddCycles(WriteBack(c3, r, result), cycles)

execute_rol(c, value, r, cycles) ==
    IF value.fault # "none" THEN Fault(c, value.fault)
    ELSE LET result == BitOr(Wrap(value.val * 2, 8), B(get_flag_carry(c)))
             c1 == set_flag_carry(c, BitAnd(value.val \div 128, 1) = 1)
             c2 == set_flag_zero_by_val(c1, result)
             c3 == set_flag_negative_by_val(c2, result)
         IN  AddCycles(WriteBack(c3, r, result), cycles)

execute_ror(c, value, r, cycles) ==
    IF value.fault # "none" THEN Fault(c, value.fault)
    ELSE LET result == BitOr(value.val \div 2, Wrap(B(get_flag_carry(c)) * 128, 8))
             c1 == set_flag_carry(c, BitAnd(value.val, 1) = 1)
             c2 == set_flag_zero_by_val(c1, result)
             c3 == set_flag_negative_by_val(c2, result)
         IN  AddCycles(WriteBack(c3, r, result), cycles)

branch_if_condition(c, value, condition) ==
    LET c1 == AddCycles(c, 2)
        next == Checked(c, c.program_counter + 2, 16)
    IN  IF next.fault # "none" THEN Fault(c1, next.fault)
        ELSE IF ~condition THEN [c1 EXCEPT !.program_counter = next.val]
        ELSE LET new_pc == Checked(c, next.val + cast_signed_as_u16(value), 16)
             IN  IF new_pc.fault # "none" THEN Fault(c1, new_pc.fault)
                 ELSE [AddCycles(c1, IF BitAnd(new_pc.val, 65280)
                                        = BitAnd(c.program_counter, 65280)
                                     THEN 1 ELSE 2)
                        EXCEPT !.program_counter = new_pc.val]

\* self.index_x += d (inx, dex)
StepIndexX(c, d) ==
    LET r == Checked(c, c.index_x + d, 8)
    IN  IF r.fault # "none" THEN Fault(c, r.fault)
        ELSE LET c1 == [c EXCEPT !.index_x = r.val]
                 c2 == set_flag_zero_by_val(c1, c1.index_x)
                 c3 == set_flag_negative_by_val(c2, c1.index_x)
             IN  AddCycles(c3, 2)

\* self.index_y += d (iny, dey)
StepIndexY(c, d) ==
    LET r == Checked(c, c.index_y + d, 8)
    IN  IF r.fault # "none" THEN Fault(c, r.fault)
        ELSE LET c1 == [c EXCEPT !.index_y = r.val]
                 c2 == set_flag_zero_by_val(c1, c1.index_y)
                 c3 == set_flag_negative_by_val(c2, c1.index_y)
             IN  AddCycles(c3, 2)

\* tax, tay, tsx, txa, tya: the register dest takes value, and the zero and
\* negative flags are set from flag_source
Transfer(c, dest, value, flag_source) ==
    LET c1 == [c EXCEPT ![dest] = value]
        c2 == set_flag_zero_by_val(c1, flag_source)
        c3 == set_flag_negative_by_val(c2, flag_source)
    IN  AddCycles(c3, 2)

\* pla
Pla(c) ==
    LET c1 == pop_cpu(c)
    IN  IF c1.fault # "none" THEN c1
        ELSE LET c2 == [c1 EXCEPT !.accumulator = pop_val(c)]
                 c3 == set_flag_zero_by_val(c2, c2.accumulator)
                 c4 == set_flag_negative_by_val(c3, c2.accumulator)
             IN  AddCycles(c4, 4)

\* plp
Plp(c) ==
    LET c1 == pop_cpu(c)
    IN  IF c1.fault # "none" THEN c1 ELSE set_processor_status(c1, pop_val(c), TRUE)

---------------------------------------------------------------------------
(* Dispatch *)

BRANCHING_OP_CODES ==
    {\h90, \hB0, \hF0, \h30, \hD0, \h10, \h00, \h50, \h70, \h4C, \h6C, \h20, \h40, \h60}

\* 0x00: brk
Brk(c) ==
    LET val == Checked(c, c.program_counter + 2, 16)
    IN  IF val.fault # "none" THEN Fault(c, val.fault)
        ELSE LET bytes == to_be_bytes(val.val)
                 c1 == push(c, bytes[1])
                 c2 == push(c1, bytes[2])
                 c3 == push(c2, get_processor_status(c2))
                 c4 == set_flag_interrupt(c3, TRUE)
                 c5 == AddCycles(c4, 7)
             IN  IF c5.fault # "none" THEN c5
                 ELSE [c5 EXCEPT !.program_counter = 65534]

\* 0x4C: jmp absolute
Jmp(c, inst) ==
    LET c1 == AddCycles(c, 3)
        target == get_addr_absolute(c1, get_absolute_addr(inst))
    IN  IF target.fault # "none" THEN Fault(c1, target.fault)
        ELSE [c1 EXCEPT !.program_counter = target.val]

\* 0x20: jsr
Jsr(c, inst) ==
    LET val == Checked(c, c.program_counter + 2, 16)
    IN  IF val.fault # "none" THEN Fault(c, val.fault)
        ELSE LET bytes == to_be_bytes(val.val)
                 c1 == push(c, bytes[1])
                 c2 == push(c1, bytes[2])
                 c3 == AddCycles(c2, 6)
                 target == get_addr_absolute(c3, get_absolute_addr(inst))
             IN  IF c3.fault # "none" THEN c3
                 ELSE IF target.fault # "none" THEN Fault(c3, target.fault)
                 ELSE [c3 EXCEPT !.program_counter = target.val]

\* 0x40: rti
Rti(c) ==
    LET c1 == pop_cpu(c)
        flags == pop_val(c)
        c2 == IF c1.fault # "none" THEN c1 ELSE set_processor_status(c1, flags, FALSE)
        c3 == pop_cpu(c2)
        low == pop_val(c2)
        c4 == pop_cpu(c3)
        high == pop_val(c3)
        c5 == AddCycles(c4, 6)
    IN  IF c5.fault # "none" THEN c5
        ELSE [c5 EXCEPT !.program_counter = from_be_bytes(high, low)]

\* 0x60: rts
Rts(c) ==
    LET c1 == pop_cpu(c)
        low == pop_val(c)
        c2 == pop_cpu(c1)
        high == pop_val(c1)
        c3 == AddCycles(c2, 6)
        target == Checked(c, from_be_bytes(high, low) + 1, 16)
    IN  IF c3.fault # "none" THEN c3
        ELSE IF target.fault # "none" THEN Fault(c3, target.fault)
        ELSE [c3 EXCEPT !.program_counter = target.val]

\* the first match of execute_instruction: the opcodes that set the program counter
ExecuteBranching(c, inst) ==
    LET op == inst.op_code
        a0 == inst.arguments[1]
    IN  CASE op = \h90 -> branch_if_condition(c, a0, ~get_flag_carry(c))
          [] op = \hB0 -> branch_if_condition(c, a0, get_flag_carry(c))
          [] op = \hF0 -> branch_if_condition(c, a0, get_flag_zero(c))
          [] op = \hD0 -> branch_if_condition(c, a0, ~get_flag_zero(c))
          [] op = \h30 -> branch_if_condition(c, a0, get_flag_negative(c))
          [] op = \h10 -> branch_if_condition(c, a0, ~get_flag_negative(c))
          [] op = \h70 -> branch_if_condition(c, a0, get_flag_overflow(c))
          [] op = \h50 -> branch_if_condition(c, a0, ~get_flag_overflow(c))
          [] op = \h00 -> Brk(c)
          [] op = \h4C -> Jmp(c, inst)
          [] op = \h6C -> Fault(c, "unsupported")
          [] op = \h20 -> Jsr(c, inst)
          [] op = \h40 -> Rti(c)
          [] op = \h60 -> Rts(c)
          [] OTHER -> Fault(c, "unknown")

\* an opcode outside the table executed as a two-cycle no-op
UnknownOpCode_as_nop(c, inst) == AddCycles(c, 2)

\* the default arm of the second match: panic!("Unknown op code received")
UnknownOpCode(c, inst) == Fault(c, "unknown")

\* the second match of execute_instruction
ExecuteOther(c, inst) ==
    LET op == inst.op_code
        a0 == inst.arguments[1]
        abs == get_absolute_addr(inst)
    IN  CASE
             op = \h69 -> execute_adc(c, Ok(a0), Ok(2))
          [] op = \h65 -> execute_adc(c, get_addr_zero(c, a0), Ok(3))
          [] op = \h75 -> execute_adc(c, get_addr_zero_x(c, a0), Ok(4))
          [] op = \h6D -> execute_adc(c, get_addr_absolute(c, abs), Ok(4))
          [] op = \h7D -> execute_adc(c, get_addr_absolute_x(c, abs), increment_if_crossed_absolute(c, 4, abs, c.index_x))
          [] op = \h79 -> execute_adc(c, get_addr_absolute_y(c, abs), increment_if_crossed_absolute(c, 4, abs, c.index_y))
          [] op = \h61 -> execute_adc(c, get_addr_indexed_indirect(c, a0), Ok(6))
          [] op = \h71 -> execute_adc(c, get_addr_indirect_indexed(c, a0), increment_if_crossed_indirect_indexed(c, 5, a0))
          [] op = \h29 -> execute_and(c, Ok(a0), Ok(2))
          [] op = \h25 -> execute_and(c, get_addr_zero(c, a0), Ok(3))
          [] op = \h35 -> execute_and(c, get_addr_zero_x(c, a0), Ok(4))
          [] op = \h2D -> execute_and(c, get_addr_absolute(c, abs), Ok(4))
          [] op = \h3D -> execute_and(c, get_addr_absolute_x(c, abs), increment_if_crossed_absolute(c, 4, abs, c.index_x))
          [] op = \h39 -> execute_and(c, get_addr_absolute_y(c, abs), increment_if_crossed_absolute(c, 4, abs, c.index_y))
          [] op = \h21 -> execute_and(c, get_addr_indexed_indirect(c, a0), Ok(6))
          [] op = \h31 -> execute_and(c, get_addr_indirect_indexed(c, a0), increment_if_crossed_indirect_indexed(c, 5, a0))
          [] op = \h0A -> execute_asl(c, Ok(c.accumulator), Acc, 2)
          [] op = \h06 -> execute_asl(c, get_addr_zero(c, a0), Dest("zero", a0), 5)
          [] op = \h16 -> execute_asl(c, get_addr_zero_x(c, a0), Dest("zero_x", a0), 6)
          [] op = \h0E -> execute_asl(c, get_addr_absolute(c, abs), Dest("absolute", abs), 6)
          [] op = \h1E -> execute_asl(c, get_addr_absolute_x(c, abs), Dest("absolute_x", abs), 7)
          [] op = \h24 -> execute_bit(c, get_addr_zero(c, a0), Ok(3))
          [] op = \h2C -> execute_bit(c, get_addr_absolute(c, abs), Ok(4))
          [] op = \h18 -> AddCycles(set_flag_carry(c, FALSE), 2)
          [] op = \hD8 -> AddCycles(set_flag_decimal(c, FALSE), 2)
          [] op = \h58 -> AddCycles([c EXCEPT !.change_interrupt_disable_flag = 0], 2)
          [] op = \hB8 -> AddCycles(set_flag_overflow(c, FALSE), 2)
          [] op = \hC9 -> execute_cmp(c, Ok(a0), Ok(2))
          [] op = \hC5 -> execute_cmp(c, get_addr_zero(c, a0), Ok(3))
          [] op = \hD5 -> execute_cmp(c, get_addr_zero_x(c, a0), Ok(4))
          [] op = \hCD -> execute_cmp(c, get_addr_absolute(c, abs), Ok(4))
          [] op = \hDD -> execute_cmp(c, get_addr_absolute_x(c, abs), increment_if_crossed_absolute(c, 4, abs, c.index_x))
          [] op = \hD9 -> execute_cmp(c, get_addr_absolute_y(c, abs), increment_if_crossed_absolute(c, 4, abs, c.index_y))
          [] op = \hC1 -> execute_cmp(c, get_addr_indexed_indirect(c, a0), Ok(6))
          [] op = \hD1 -> execute_cmp(c, get_addr_indirect_indexed(c, a0), increment_if_crossed_indirect_indexed(c, 5, a0))
          [] op = \hE0 -> execute_cmx(c, Ok(a0), Ok(2))
          [] op = \hE4 -> execute_cmx(c, get_addr_zero(c, a0), Ok(3))
          [] op = \hEC -> execute_cmx(c, get_addr_absolute(c, abs), Ok(4))
          [] op = \hC0 -> execute_cmy(c, Ok(a0), Ok(2))
          [] op = \hC4 -> execute_cmy(c, get_addr_zero(c, a0), Ok(3))
          [] op = \hCC -> execute_cmy(c, get_addr_absolute(c, abs), Ok(4))
          [] op = \hC6 -> execute_dec(c, get_addr_zero_index(c, a0), Ok(5))
          [] op = \hD6 -> execute_dec(c, get_addr_zero_x_index(c, a0), Ok(6))
          [] op = \hCE -> execute_dec(c, Ok(abs), Ok(6))
          [] op = \hDE -> execute_dec(c, Checked(c, abs + c.index_x, 16), Ok(7))
          [] op = \hCA -> StepIndexX(c, -1)
          [] op = \h88 -> StepIndexY(c, -1)
          [] op = \h49 -> execute_eor(c, Ok(a0), Ok(2))
          [] op = \h45 -> execute_eor(c, get_addr_zero(c, a0), Ok(3))
          [] op = \h55 -> execute_eor(c, get_addr_zero_x(c, a0), Ok(4))
          [] op = \h4D -> execute_eor(c, get_addr_absolute(c, abs), Ok(5))
          [] op = \h5D -> execute_eor(c, get_addr_absolute_x(c, abs), increment_if_crossed_absolute(c, 4, abs, c.index_x))
          [] op = \h59 -> execute_eor(c, get_addr_absolute_y(c, abs), increment_if_crossed_absolute(c, 4, abs, c.index_y))
          [] op = \h41 -> execute_eor(c, get_addr_indexed_indirect(c, a0), Ok(6))
          [] op = \h51 -> execute_eor(c, get_addr_indirect_indexed(c, a0), increment_if_crossed_indirect_indexed(c, 5, a0))
          [] op = \hE6 -> execute_inc(c, get_addr_zero_index(c, a0), Ok(5))
          [] op = \hF6 -> execute_inc(c, get_addr_zero_x_index(c, a0), Ok(6))
          [] op = \hEE -> execute_inc(c, Ok(abs), Ok(6))
          [] op = \hFE -> execute_inc(c, Checked(c, abs + c.index_x, 16), Ok(7))
          [] op = \hE8 -> StepIndexX(c, 1)
          [] op = \hC8 -> StepIndexY(c, 1)
          [] op = \hA9 -> execute_lda(c, Ok(a0), Ok(2))
          [] op = \hA5 -> execute_lda(c, get_addr_zero(c, a0), Ok(3))
          [] op = \hB5 -> execute_lda(c, get_addr_zero_x(c, a0), Ok(4))
          [] op = \hAD -> execute_lda(c, get_addr_absolute(c, abs), Ok(4))
          [] op = \hBD -> execute_lda(c, get_addr_absolute_x(c, abs), increment_if_crossed_absolute(c, 4, abs, c.index_x))
          [] op = \hB9 -> execute_lda(c, get_addr_absolute_y(c, abs), increment_if_crossed_absolute(c, 4, abs, c.index_y))
          [] op = \hA1 -> execute_lda(c, get_addr_indexed_indirect(c, a0), Ok(6))
          [] op = \hB1 -> execute_lda(c, get_addr_indirect_indexed(c, a0), increment_if_crossed_indirect_indexed(c, 5, a0))
          [] op = \hA2 -> execute_ldx(c, Ok(a0), Ok(2))
          [] op = \hA6 -> execute_ldx(c, get_addr_zero(c, a0), Ok(3))
          [] op = \hB6 -> execute_ldx(c, get_addr_zero_y(c, a0), Ok(4))
          [] op = \hAE -> execute_ldx(c, get_addr_absolute(c, abs), Ok(4))
          [] op = \hBE -> execute_ldx(c, get_addr_absolute_y(c, abs), increment_if_crossed_absolute(c, 4, abs, c.index_y))
          [] op = \hA0 -> execute_ldy(c, Ok(a0), Ok(2))
          [] op = \hA4 -> execute_ldy(c, get_addr_zero(c, a0), Ok(3))
          [] op = \hB4 -> execute_ldy(c, get_addr_zero_x(c, a0), Ok(4))
          [] op = \hAC -> execute_ldy(c, get_addr_absolute(c, abs), Ok(4))
          [] op = \hBC -> execute_ldy(c, get_addr_absolute_x(c, abs), increment_if_crossed_absolute(c, 4, abs, c.index_x))
          [] op = \h4A -> execute_lsr(c, Ok(c.accumulator), Acc, 2)
          [] op = \h46 -> execute_lsr(c, get_addr_zero(c, a0), Dest("zero", a0), 5)
          [] op = \h56 -> execute_lsr(c, get_addr_zero_x(c, a0), Dest("zero_x", a0), 5)
          [] op = \h4E -> execute_lsr(c, get_addr_absolute(c, abs), Dest("absolute", abs), 5)
          [] op = \h5E -> execute_lsr(c, get_addr_absolute_x(c, abs), Dest("absolute_x", abs), 5)
          [] op = \hEA -> AddCycles(c, 2)
          [] op = \h09 -> execute_ora(c, Ok(a0), Ok(2))
          [] op = \h05 -> execute_ora(c, get_addr_zero(c, a0), Ok(3))
          [] op = \h15 -> execute_ora(c, get_addr_zero_x(c, a0), Ok(4))
          [] op = \h0D -> execute_ora(c, get_addr_absolute(c, abs), Ok(4))
          [] op = \h1D -> execute_ora(c, get_addr_absolute_x(c, abs), increment_if_crossed_absolute(c, 4, abs, c.index_x))
          [] op = \h19 -> execute_ora(c, get_addr_absolute_y(c, abs), increment_if_crossed_absolute(c, 4, abs, c.index_y))
          [] op = \h01 -> execute_ora(c, get_addr_indexed_indirect(c, a0), Ok(6))
          [] op = \h11 -> execute_ora(c, get_addr_indirect_indexed(c, a0), increment_if_crossed_indirect_indexed(c, 5, a0))
          [] op = \h48 -> AddCycles(push(c, c.accumulator), 3)
          [] op = \h08 -> AddCycles(push(c, get_processor_status(c)), 3)
          [] op = \h68 -> Pla(c)
          [] op = \h28 -> Plp(c)
          [] op = \h2A -> execute_rol(c, Ok(c.accumulator), Acc, 2)
          [] op = \h26 -> execute_rol(c, get_addr_zero(c, a0), Dest("zero", a0), 5)
          [] op = \h36 -> execute_rol(c, get_addr_zero_x(c, a0), Dest("zero_x", a0), 5)
          [] op = \h2E -> execute_rol(c, get_addr_absolute(c, abs), Dest("absolute", abs), 6)
          [] op = \h3E -> execute_rol(c, get_addr_absolute_x(c, abs), Dest("absolute_x", abs), 6)
          [] op = \h6A -> execute_ror(c, Ok(c.accumulator), Acc, 2)
          [] op = \h66 -> execute_ror(c, get_addr_zero(c, a0), Dest("zero", a0), 5)
          [] op = \h76 -> execute_ror(c, get_addr_zero_x(c, a0), Dest("zero_x", a0), 5)
          [] op = \h6E -> execute_ror(c, get_addr_absolute(c, abs), Dest("absolute", abs), 6)
          [] op = \h7E -> execute_ror(c, get_addr_absolute_x(c, abs), Dest("absolute_x", abs), 6)
          [] op = \hE9 -> execute_sbc(c, Ok(a0), Ok(2))
          [] op = \hE5 -> execute_sbc(c, get_addr_zero(c, a0), Ok(3))
          [] op = \hF5 -> execute_sbc(c, get_addr_zero_x(c, a0), Ok(4))
          [] op = \hED -> execute_sbc(c, get_addr_absolute(c, abs), Ok(4))
          [] op = \hFD -> execute_sbc(c, get_addr_absolute_x(c, abs), increment_if_crossed_absolute(c, 4, abs, c.index_x))
          [] op = \hF9 -> execute_sbc(c, get_addr_absolute_y(c, abs), increment_if_crossed_absolute(c, 4, abs, c.index_y))
          [] op = \hE1 -> execute_sbc(c, get_addr_indexed_indirect(c, a0), Ok(6))
          [] op = \hF1 -> execute_sbc(c, get_addr_indirect_indexed(c, a0), increment_if_crossed_indirect_indexed(c, 5, a0))
          [] op = \h38 -> AddCycles(set_flag_carry(c, TRUE), 2)
          [] op = \hF8 -> AddCycles(set_flag_decimal(c, TRUE), 2)
          [] op = \h78 -> AddCycles([c EXCEPT !.change_interrupt_disable_flag = 1], 2)
          [] op = \h85 -> execute_st(c, get_addr_zero_index(c, a0), c.accumulator, 3)
          [] op = \h95 -> execute_st(c, get_addr_zero_x_index(c, a0), c.accumulator, 4)
          [] op = \h8D -> execute_st(c, Ok(abs), c.accumulator, 4)
          [] op = \h9D -> execute_st(c, Checked(c, abs + c.index_x, 16), c.accumulator, 5)
          [] op = \h99 -> execute_st(c, Checked(c, abs + c.index_y, 16), c.accumulator, 5)
          [] op = \h81 -> execute_st(c, get_addr_indexed_indirect_index(c, a0), c.accumulator, 6)
          [] op = \h91 -> execute_st(c, get_addr_indirect_indexed_index(c, a0), c.accumulator, 6)
          [] op = \h86 -> execute_st(c, get_addr_zero_index(c, a0), c.index_x, 3)
          [] op = \h96 -> execute_st(c, get_addr_zero_y_index(c, a0), c.index_x, 4)
          [] op = \h8E -> execute_st(c, Ok(abs), c.index_x, 4)
          [] op = \h84 -> execute_st(c, get_addr_zero_index(c, a0), c.index_y, 3)
          [] op = \h94 -> execute_st(c, get_addr_zero_x_index(c, a0), c.index_y, 4)
          [] op = \h8C -> execute_st(c, Ok(abs), c.index_y, 4)
          [] op = \hAA -> Transfer(c, "index_x", c.accumulator, c.accumulator)
          [] op = \hA8 -> Transfer(c, "index_y", c.accumulator, c.accumulator)
          [] op = \hBA -> Transfer(c, "index_x", c.stack_pointer, c.index_y)
          [] op = \h8A -> Transfer(c, "accumulator", c.index_x, c.index_x)
          [] op = \h9A -> AddCycles([c EXCEPT !.stack_pointer = c.index_x], 2)
          [] op = \h98 -> Transfer(c, "accumulator", c.index_y, c.index_y)
          [] OTHER -> UnknownOpCode(c, inst)

\* a pending write of the interrupt-disable flag that is never applied
ApplyPending_never(c) == c

\* a pending write of the interrupt-disable flag that is applied and stays
\* pending
ApplyPending_keeping_slot(c) ==
    IF c.change_interrupt_disable_flag # -1
    THEN set_flag_interrupt(c, c.change_interrupt_disable_flag # 0)
    ELSE c

\* the pending write of the interrupt-disable flag, applied before the instruction
ApplyPending(c) ==
    IF c.change_interrupt_disable_flag # -1
    THEN [set_flag_interrupt(c, c.change_interrupt_disable_flag # 0)
            EXCEPT !.change_interrupt_disable_flag = -1]
    ELSE c

\* the program counter advanced by one byte, whatever the instruction's size
AdvanceProgramCounter_by_one(c, inst) ==
    IF c.fault # "none" THEN c
    ELSE [c EXCEPT !.program_counter = Wrap(@ + 1, 16)]

\* self.program_counter += inst.size as u16
AdvanceProgramCounter(c, inst) ==
    IF c.fault # "none" THEN c
    ELSE LET pc == Checked(c, c.program_counter + inst.size, 16)
         IN  IF pc.fault # "none" THEN Fault(c, pc.fault)
             ELSE [c EXCEPT !.program_counter = pc.val]

execute_instruction(c, inst) ==
    LET c1 == ApplyPending(c)
    IN  IF inst.op_code \in BRANCHING_OP_CODES
        THEN ExecuteBranching(c1, inst)
        ELSE AdvanceProgramCounter(ExecuteOther(c1, inst), inst)

---------------------------------------------------------------------------
(* The processor and the instructions fed to it *)

\* Cpu::new() with the stack pointer at the bottom of the stack page
new_with_stack_pointer_zero(checks) ==
    [memory |-> <<>>,
     program_counter |-> 0,
     stack_pointer |-> 0,
     accumulator |-> 0,
     index_x |-> 0,
     index_y |-> 0,
     processor_status |-> 0,
     cycle |-> 0,
     change_interrupt_disable_flag |-> -1,
     fault |-> "none",
     overflow_checks |-> checks]

\* Cpu::new(), in a build with or without overflow checks
new(checks) ==
    [memory |-> <<>>,
     program_counter |-> 0,
     stack_pointer |-> 255,
     accumulator |-> 0,
     index_x |-> 0,
     index_y |-> 0,
     processor_status |-> 0,
     cycle |-> 0,
     change_interrupt_disable_flag |-> -1,
     fault |-> "none",
     overflow_checks |-> checks]

\* the processor as the variables hold it
Cpu ==
    [memory |-> memory,
     program_counter |-> program_counter,
     stack_pointer |-> stack_pointer,
     accumulator |-> accumulator,
     index_x |-> index_x,
     index_y |-> index_y,
     processor_status |-> processor_status,
     cycle |-> cycle,
     change_interrupt_disable_flag |-> change_interrupt_disable_flag,
     fault |-> fault,
     overflow_checks |-> overflow_checks]

\* Instruction::new
Instruction(op_code, arguments, size) ==
    [op_code |-> op_code, arguments |-> arguments, size |-> size]

\* Parser::new: instruction_length_map, by length
Length1 ==
    {\h0A, \h18, \hD8, \h58, \hB8, \hCA, \h88, \hE8, \hC8, \h4A, \hEA, \h48, \h08, \h68,
     \h28, \h2A, \h6A, \h40, \h60, \h38, \hF8, \h78, \hAA, \hA8, \hBA, \h8A, \h9A, \h98}
Length2 ==
    {\h69, \h65, \h75, \h61, \h71, \h29, \h25, \h35, \h21, \h31, \h06, \h16, \h90, \hB0,
     \hF0, \h24, \h30, \hD0, \h10, \h00, \h50, \h70, \hC9, \hC5, \hD5, \hC1, \hD1, \hE0,
     \hE4, \hC0, \hC4, \hC6, \hD6, \h49, \h45, \h55, \h41, \h51, \hE6, \hF6, \hA9, \hA5,
     \hB5, \hA1, \hB1, \hA2, \hA6, \hB6, \hA0, \hA4, \hB4, \h46, \h56, \h09, \h05, \h15,
     \h01, \h11, \h26, \h36, \h66, \h76, \hE9, \hE5, \hF5, \hE1, \hF1, \h85, \h95, \h81,
     \h91, \h86, \h96, \h84, \h94}
Length3 ==
    {\h6D, \h7D, \h79, \h2D, \h3D, \h39, \h0E, \h1E, \h2C, \hCD, \hDD, \hD9, \hEC, \hCC,
     \hCE, \hDE, \h4D, \h5D, \h59, \hEE, \hFE, \h4C, \h6C, \h20, \hAD, \hBD, \hB9, \hAE,
     \hBE, \hAC, \hBC, \h4E, \h5E, \h0D, \h1D, \h19, \h2E, \h3E, \h6E, \h7E, \hED, \hFD,
     \hF9, \h8D, \h9D, \h99, \h8E, \h8C}

instruction_length_map ==
    [op \in Length1 \cup Length2 \cup Length3 |->
        IF op \in Length1 THEN 1 ELSE IF op \in Length2 THEN 2 ELSE 3]

\* The opcodes of execute_instruction's two matches, by mnemonic
OpCodes ==
    [BRANCH |-> {\h90, \hB0, \hF0, \hD0, \h30, \h10, \h70, \h50},
     BRK |-> {\h00},
     JMP |-> {\h4C},
     JMP_INDIRECT |-> {\h6C},
     JSR |-> {\h20},
     RTI |-> {\h40},
     RTS |-> {\h60},
     ADC |-> {\h69, \h65, \h75, \h6D, \h7D, \h79, \h61, \h71},
     AND |-> {\h29, \h25, \h35, \h2D, \h3D, \h39, \h21, \h31},
     ASL |-> {\h0A, \h06, \h16, \h0E, \h1E},
     BIT |-> {\h24, \h2C},
     CLC |-> {\h18},
     CLD |-> {\hD8},
     CLI |-> {\h58},
     CLV |-> {\hB8},
     CMP |-> {\hC9, \hC5, \hD5, \hCD, \hDD, \hD9, \hC1, \hD1},
     CPX |-> {\hE0, \hE4, \hEC},
     CPY |-> {\hC0, \hC4, \hCC},
     DEC |-> {\hC6, \hD6, \hCE, \hDE},
     DEX |-> {\hCA},
     DEY |-> {\h88},
     EOR |-> {\h49, \h45, \h55, \h4D, \h5D, \h59, \h41, \h51},
     INC |-> {\hE6, \hF6, \hEE, \hFE},
     INX |-> {\hE8},
     INY |-> {\hC8},
     LDA |-> {\hA9, \hA5, \hB5, \hAD, \hBD, \hB9, \hA1, \hB1},
     LDX |-> {\hA2, \hA6, \hB6, \hAE, \hBE},
     LDY |-> {\hA0, \hA4, \hB4, \hAC, \hBC},
     LSR |-> {\h4A, \h46, \h56, \h4E, \h5E},
     NOP |-> {\hEA},
     ORA |-> {\h09, \h05, \h15, \h0D, \h1D, \h19, \h01, \h11},
     PHA |-> {\h48},
     PHP |-> {\h08},
     PLA |-> {\h68},
     PLP |-> {\h28},
     ROL |-> {\h2A, \h26, \h36, \h2E, \h3E},
     ROR |-> {\h6A, \h66, \h76, \h6E, \h7E},
     SBC |-> {\hE9, \hE5, \hF5, \hED, \hFD, \hF9, \hE1, \hF1},
     SEC |-> {\h38},
     SED |-> {\hF8},
     SEI |-> {\h78},
     STA |-> {\h85, \h95, \h8D, \h9D, \h99, \h81, \h91},
     STX |-> {\h86, \h96, \h8E},
     STY |-> {\h84, \h94, \h8C},
     TAX |-> {\hAA},
     TAY |-> {\hA8},
     TSX |-> {\hBA},
     TXA |-> {\h8A},
     TXS |-> {\h9A},
     TYA |-> {\h98}]

\* every opcode one of the two matches has an arm for
DispatchTable == BRANCHING_OP_CODES \cup DOMAIN instruction_length_map

---------------------------------------------------------------------------
(* Actions: one call of execute_instruction each *)

\* The instructions a decoder makes of one opcode: unused argument bytes are
\* zero, and a three-byte instruction carries its address high byte first.
\* u.a, u.hi and u.lo are the operand bytes drawn.
InstructionsOf(op, u) ==
    LET size == instruction_length_map[op]
    IN  CASE size = 1 -> {Instruction(op, <<0, 0>>, 1)}
          [] size = 2 -> {Instruction(op, <<a, 0>>, 2) : a \in u.a}
          [] size = 3 -> {Instruction(op, <<h, l>>, 3) : h \in u.hi, l \in u.lo}

\* u.ops are the opcodes drawn
Instructions(ops, u) == UNION {InstructionsOf(op, u) : op \in ops \cap u.ops}

\* the last two instructions executed, each with the processor before it
Remember(h, inst, c) ==
    LET all == Append(h, [inst |-> inst, before |-> c])
    IN  IF Len(all) > 2 THEN Tail(all) ELSE all

\* the longest program fed, in instructions
MaxSteps == 2

\* execute_instruction is called only on a processor that has not panicked;
\* the model stops feeding instructions once the cycle counter reaches u.cap
\* or u.steps instructions were executed
Running(u) == fault = "none" /\ cycle < u.cap /\ executed < u.steps

\* execute_instruction(inst)
Execute(inst) ==
    /\ \E c \in {execute_instruction(Cpu, inst)} :
           /\ memory' = c.memory
           /\ program_counter' = c.program_counter
           /\ stack_pointer' = c.stack_pointer
           /\ accumulator' = c.accumulator
           /\ index_x' = c.index_x
           /\ index_y' = c.index_y
           /\ processor_status' = c.processor_status
           /\ cycle' = c.cycle
           /\ change_interrupt_disable_flag' = c.change_interrupt_disable_flag
           /\ fault' = c.fault
    /\ overflow_checks' = overflow_checks
    /\ history' = Remember(history, inst, Cpu)
    /\ executed' = executed + 1

BRANCH(u) == Running(u) /\ \E inst \in Instructions(OpCodes.BRANCH, u) : Execute(inst)
BRK(u) == Running(u) /\ \E inst \in Instructions(OpCodes.BRK, u) : Execute(inst)
JMP(u) == Running(u) /\ \E inst \in Instructions(OpCodes.JMP, u) : Execute(inst)
JMP_INDIRECT(u) == Running(u) /\ \E inst \in Instructions(OpCodes.JMP_INDIRECT, u) : Execute(inst)
JSR(u) == Running(u) /\ \E inst \in Instructions(OpCodes.JSR, u) : Execute(inst)
RTI(u) == Running(u) /\ \E inst \in Instructions(OpCodes.RTI, u) : Execute(inst)
RTS(u) == Running(u) /\ \E inst \in Instructions(OpCodes.RTS, u) : Execute(inst)
ADC(u) == Running(u) /\ \E inst \in Instructions(OpCodes.ADC, u) : Execute(inst)
AND(u) == Running(u) /\ \E inst \in Instructions(OpCodes.AND, u) : Execute(inst)
CLI(u) == Running(u) /\ \E inst \in Instructions(OpCodes.CLI, u) : Execute(inst)
CMP(u) == Running(u) /\ \E inst \in Instructions(OpCodes.CMP, u) : Execute(inst)
CPX(u) == Running(u) /\ \E inst \in Instructions(OpCodes.CPX, u) : Execute(inst)
CPY(u) == Running(u) /\ \E inst \in Instructions(OpCodes.CPY, u) : Execute(inst)
EOR(u) == Running(u) /\ \E inst \in Instructions(OpCodes.EOR, u) : Execute(inst)
LDA(u) == Running(u) /\ \E inst \in Instructions(OpCodes.LDA, u) : Execute(inst)
LDX(u) == Running(u) /\ \E inst \in Instructions(OpCodes.LDX, u) : Execute(inst)
LDY(u) == Running(u) /\ \E inst \in Instructions(OpCodes.LDY, u) : Execute(inst)
NOP(u) == Running(u) /\ \E inst \in Instructions(OpCodes.NOP, u) : Execute(inst)
ORA(u) == Running(u) /\ \E inst \in Instructions(OpCodes.ORA, u) : Execute(inst)
PHA(u) == Running(u) /\ \E inst \in Instructions(OpCodes.PHA, u) : Execute(inst)
PHP(u) == Running(u) /\ \E inst \in Instructions(OpCodes.PHP, u) : Execute(inst)
PLA(u) == Running(u) /\ \E inst \in Instructions(OpCodes.PLA, u) : Execute(inst)
PLP(u) == Running(u) /\ \E inst \in Instructions(OpCodes.PLP, u) : Execute(inst)
SBC(u) == Running(u) /\ \E inst \in Instructions(OpCodes.SBC, u) : Execute(inst)
SEI(u) == Running(u) /\ \E inst \in Instructions(OpCodes.SEI, u) : Execute(inst)

\* an opcode byte that neither match has an arm for
\* any instruction of the dispatch table that execute_instruction implements
KNOWN(u) ==
    /\ Running(u)
    /\ \E inst \in Instructions(DispatchTable \ OpCodes.JMP_INDIRECT, u) : Execute(inst)

UNKNOWN(u) ==
    /\ Running(u)
    /\ \E op \in u.unknown, size \in 1..3 : Execute(Instruction(op, <<0, 0>>, size))

\* tests::test_inst: Cpu::new(), then the test's init closure sets fields
\* to values drawn from s
Harness(s) ==
    /\ overflow_checks \in BOOLEAN
    /\ memory \in s.memory
    /\ program_counter \in s.program_counter
    /\ stack_pointer \in s.stack_pointer
    /\ accumulator \in s.accumulator
    /\ index_x \in s.index_x
    /\ index_y \in s.index_y
    /\ processor_status \in s.processor_status
    /\ change_interrupt_disable_flag \in s.change_interrupt_disable_flag
    /\ cycle = new(overflow_checks).cycle
    /\ fault = "none"
    /\ history = <<>>
    /\ executed = 0

\* what test_inst leaves as Cpu::new() made it
Fresh ==
    [memory |-> {new(TRUE).memory},
     program_counter |-> {new(TRUE).program_counter},
     stack_pointer |-> {new(TRUE).stack_pointer},
     accumulator |-> {new(TRUE).accumulator},
     index_x |-> {new(TRUE).index_x},
     index_y |-> {new(TRUE).index_y},
     processor_status |-> {new(TRUE).processor_status},
     change_interrupt_disable_flag |-> {new(TRUE).change_interrupt_disable_flag}]

\* processor_status with exactly the flags named in S set
Status(S) ==
    64 * B("carry" \in S) + 32 * B("zero" \in S) + 16 * B("interrupt" \in S)
    + 8 * B("decimal" \in S) + 2 * B("overflow" \in S) + B("negative" \in S)

---------------------------------------------------------------------------
(* What the claims read *)

\* the instruction executed last, with the processor before it
Last == history[Len(history)]
Before == Last.before

\* the last instruction executed was one of ops
Executed(ops) == history # <<>> /\ Last.inst.op_code \in ops

\* the last two instructions executed were one of ops1, then one of ops2
ExecutedPair(ops1, ops2) ==
    /\ Len(history) = 2
    /\ history[1].inst.op_code \in ops1
    /\ history[2].inst.op_code \in ops2

\* the flags of the processor as it is now
Carry == get_flag_carry(Cpu)
Zero == get_flag_zero(Cpu)
InterruptDisable == get_flag_interrupt(Cpu)
Decimal == get_flag_decimal(Cpu)
Overflow == get_flag_overflow(Cpu)
Negative == get_flag_negative(Cpu)

\* an offset byte as the signed number it stands for
Signed(offset) == IF offset >= 128 THEN offset - 256 ELSE offset

\* the 256-byte page of an address
Page(addr) == addr \div 256

---------------------------------------------------------------------------
(* SpecAlu: one arithmetic or compare instruction with an immediate operand: *)
(* ADC for every accumulator, every operand byte and either carry.           *)

MaxCycleAlu == 1

AluInputs ==
    [ops |-> {\h69}, a |-> Byte, hi |-> {}, lo |-> {}, unknown |-> {},
     cap |-> MaxCycleAlu, steps |-> MaxSteps]

CompareInputs ==
    [ops |-> {\hC9, \hE0, \hC0}, a |-> {0, 10, 20, 30, 127, 128, 200, 255},
     hi |-> {}, lo |-> {}, unknown |-> {}, cap |-> MaxCycleAlu,
     steps |-> MaxSteps]

InitAlu ==
    Harness([Fresh EXCEPT !.accumulator = Byte,
                          !.index_x = {20},
                          !.index_y = {200},
                          !.processor_status = {Status({}), Status({"carry"})}])

NextAlu ==
    ADC(AluInputs) \/ CMP(CompareInputs) \/ CPX(CompareInputs) \/ CPY(CompareInputs)

SpecAlu == InitAlu /\ [][NextAlu]_vars

\* C1: after ADC of operand M to accumulator A with carry-in c, the
\* accumulator is (A + M + c) mod 256, zero is set iff that is 0, negative iff
\* its bit 7 is 1, carry iff A + M + c > 255, and overflow iff the sum's sign
\* bit differs from the sign bit of A and from the sign bit of M.
C1_AdcResult ==
    Executed({\h69}) =>
        LET A == Before.accumulator
            M == Last.inst.arguments[1]
            r == A + M + B(get_flag_carry(Before))
        IN  /\ accumulator = r % 256
            /\ Zero <=> (r % 256 = 0)
            /\ Negative <=> (Bit(r % 256, 7) = 1)
            /\ Carry <=> (r > 255)
            /\ Overflow <=> (Bit(r, 7) # Bit(A, 7) /\ Bit(r, 7) # Bit(M, 7))

\* ADC 0xA2 to accumulator 0x80, as in tests::test_adc: carry and overflow
C1_Witness ==
    /\ Executed({\h69})
    /\ Before.accumulator = 128
    /\ Last.inst.arguments[1] = 162
    /\ accumulator = 34 /\ Carry /\ Overflow /\ ~Zero /\ ~Negative

\* the register CMP, CPX or CPY compares
Compared(c, op) ==
    IF op \in OpCodes.CMP THEN c.accumulator
    ELSE IF op \in OpCodes.CPX THEN c.index_x ELSE c.index_y

\* C8: after CMP, CPX or CPY of register R with operand M, carry is set iff
\* R >= M, zero iff R = M, negative iff bit 7 of (R - M) mod 256 is 1, and
\* the register is unchanged.
C8_CompareFlags ==
    Executed({\hC9, \hE0, \hC0}) =>
        LET R == Compared(Before, Last.inst.op_code)
            M == Last.inst.arguments[1]
        IN  /\ Carry <=> (R >= M)
            /\ Zero <=> (R = M)
            /\ Negative <=> (Bit((R - M) % 256, 7) = 1)
            /\ Compared(Cpu, Last.inst.op_code) = R

---------------------------------------------------------------------------
(* SpecBranch: the conditional branches, forward and backward, within a page *)
(* and across one, and at the top of the address space.                      *)

MaxCycleBranch == 3

BranchInputs ==
    [ops |-> OpCodes.BRANCH, a |-> {\h00, \h10, \h20, \h7F, \h80, \hF0, \hFF},
     hi |-> {}, lo |-> {}, unknown |-> {}, cap |-> MaxCycleBranch,
     steps |-> MaxSteps]

InitBranch ==
    Harness([Fresh EXCEPT
        !.program_counter = {\h20, \h02F0, \hAB01, \hFFFD, \hFFFE},
        !.processor_status =
            {Status({}), Status({"carry", "zero", "overflow", "negative"})}])

NextBranch == BRANCH(BranchInputs)

SpecBranch == InitBranch /\ [][NextBranch]_vars

\* the condition a branch opcode tests, on processor c
BranchCondition(c, op) ==
    CASE op = \h90 -> ~get_flag_carry(c)
      [] op = \hB0 -> get_flag_carry(c)
      [] op = \hF0 -> get_flag_zero(c)
      [] op = \hD0 -> ~get_flag_zero(c)
      [] op = \h30 -> get_flag_negative(c)
      [] op = \h10 -> ~get_flag_negative(c)
      [] op = \h70 -> get_flag_overflow(c)
      [] op = \h50 -> ~get_flag_overflow(c)

\* C7: a conditional branch whose condition is false adds instruction.size to
\* PC and 2 cycles; one whose condition is true adds instruction.size and the
\* signed offset to PC, and 3 cycles when the new PC is in the page of the
\* branch instruction's PC, 4 when it is in another page.
C7_BranchTiming ==
    Executed(OpCodes.BRANCH) =>
        LET taken == BranchCondition(Before, Last.inst.op_code)
            target == IF taken
                      THEN Before.program_counter + Last.inst.size
                           + Signed(Last.inst.arguments[1])
                      ELSE Before.program_counter + Last.inst.size
        IN  /\ fault = "none"
            /\ program_counter = target % 65536
            /\ cycle = Before.cycle
                       + (IF ~taken THEN 2
                          ELSE IF Page(program_counter) = Page(Before.program_counter)
                               THEN 3 ELSE 4)

---------------------------------------------------------------------------
(* Spec: a processor as Cpu::new() makes it, fed any instruction: every      *)
(* opcode of the dispatch table, and every opcode byte that is not in it.    *)

MaxCycle == 3

Inputs ==
    [ops |-> DispatchTable, a |-> {\h00, \h80}, hi |-> {\h00, \hFF},
     lo |-> {\h10, \hFF}, unknown |-> Byte \ DispatchTable, cap |-> MaxCycle,
     steps |-> MaxSteps]

Init == Harness(Fresh)

Next == KNOWN(Inputs) \/ JMP_INDIRECT(Inputs) \/ UNKNOWN(Inputs)

Spec == Init /\ [][Next]_vars

\* C10: an instruction whose opcode is JMP-indirect (0x6C) or is not in the
\* dispatch table ends in a fatal fault, whatever the processor state; it is
\* not treated as a no-op: the program counter and the cycle counter stay as
\* they were.
C10_FatalFault ==
    Executed({\h6C} \cup (Byte \ DispatchTable)) =>
        /\ fault = (IF Last.inst.op_code = \h6C THEN "unsupported" ELSE "unknown")
        /\ program_counter = Before.program_counter
        /\ cycle = Before.cycle

\* an unknown opcode and a JMP-indirect, each fed after another instruction
C10_Witness ==
    /\ Len(history) = 2
    /\ \/ Last.inst.op_code = \h02 /\ fault = "unknown"
       \/ Last.inst.op_code = \h6C /\ fault = "unsupported"
    /\ Before.cycle > 0

---------------------------------------------------------------------------
(* SpecStack: the stack instructions and the interrupt-disable flag's        *)
(* delayed write, from the top, the middle and the bottom of the stack page. *)

MaxCycleStack == 5
MaxStepsStack == 3

StackInputs ==
    [ops |-> OpCodes.PHA \cup OpCodes.PLA \cup OpCodes.PHP \cup OpCodes.PLP
             \cup OpCodes.CLI \cup OpCodes.SEI \cup OpCodes.NOP,
     a |-> {}, hi |-> {}, lo |-> {}, unknown |-> {}, cap |-> MaxCycleStack,
     steps |-> MaxStepsStack]

\* a stack page with bytes where a pop at the drawn stack pointers reads
StackImage == (\h0100 :> \hFF) @@ (\h0101 :> \h04) @@ (\h0181 :> \hC3)

InitStack ==
    Harness([Fresh EXCEPT
        !.memory = {new(TRUE).memory, StackImage},
        !.stack_pointer = {\hFF, \h80, \h00},
        !.accumulator = {\h00, \h5A, \hFF},
        !.processor_status =
            {Status({}), Status({"interrupt"}), Status({"carry", "negative"}),
             Status({"carry", "zero", "interrupt", "decimal", "overflow", "negative"})}])

NextStack ==
       PHA(StackInputs) \/ PLA(StackInputs) \/ PHP(StackInputs) \/ PLP(StackInputs)
    \/ CLI(StackInputs) \/ SEI(StackInputs) \/ NOP(StackInputs)

SpecStack == InitStack /\ [][NextStack]_vars

\* the value CLI (0) or SEI (1) stages
Staged(op) == IF op \in OpCodes.CLI THEN 0 ELSE 1

\* the opcodes of SpecStack that neither write the interrupt-disable flag nor
\* stage a write of it
FlagKeepers == OpCodes.NOP \cup OpCodes.PHA \cup OpCodes.PHP \cup OpCodes.PLA

\* C2, as stated: at the end of CLI (resp. SEI) the interrupt-disable flag has
\* the value it had before the instruction, and false (resp. true) is pending.
C2_Original ==
    Executed(OpCodes.CLI \cup OpCodes.SEI) =>
        /\ InterruptDisable = get_flag_interrupt(Before)
        /\ change_interrupt_disable_flag = Staged(Last.inst.op_code)

\* C2, amended: at the end of CLI (resp. SEI) false (resp. true) is pending,
\* and the interrupt-disable flag has the value it had before the instruction
\* when no change was pending then, and the value that was pending otherwise;
\* after the next instruction, when it completes and neither writes nor
\* stages the flag, the flag reads false (resp. true) and nothing is pending.
C2_DeferredWrite ==
    /\ Executed(OpCodes.CLI \cup OpCodes.SEI) =>
        /\ change_interrupt_disable_flag = Staged(Last.inst.op_code)
        /\ InterruptDisable =
             (IF Before.change_interrupt_disable_flag = -1
              THEN get_flag_interrupt(Before)
              ELSE Before.change_interrupt_disable_flag # 0)
    /\ (ExecutedPair(OpCodes.CLI \cup OpCodes.SEI, FlagKeepers) /\ fault = "none") =>
        /\ InterruptDisable = (history[1].inst.op_code \in OpCodes.SEI)
        /\ change_interrupt_disable_flag = -1

\* tests::test_cli: CLI with the flag set leaves it set, the NOP after it
\* clears it
C2_Witness ==
    /\ ExecutedPair(OpCodes.CLI, OpCodes.NOP)
    /\ get_flag_interrupt(history[1].before)
    /\ history[1].before.change_interrupt_disable_flag = -1
    /\ get_flag_interrupt(history[2].before)
    /\ history[2].before.change_interrupt_disable_flag = 0
    /\ ~InterruptDisable
    /\ change_interrupt_disable_flag = -1

\* C3: push(x) then pop(), as PHA then PLA: the push completes at every stack
\* pointer, writes x at 0x0100 + stack_pointer and decrements the stack
\* pointer modulo 256; the pop returns x and restores the stack pointer.
C3_StackRoundTrip ==
    /\ Executed(OpCodes.PHA) =>
        /\ fault = "none"
        /\ stack_pointer = (Before.stack_pointer - 1) % 256
        /\ Read(memory, 256 + Before.stack_pointer) = Before.accumulator
    /\ ExecutedPair(OpCodes.PHA, OpCodes.PLA) =>
        /\ fault = "none"
        /\ accumulator = history[1].before.accumulator
        /\ stack_pointer = history[1].before.stack_pointer

---------------------------------------------------------------------------
(* SpecCall: jumps, subroutine calls and interrupts, from program counters   *)
(* in the middle and at the top of the address space.                        *)

MaxCycleCall == 8

CallInputs ==
    [ops |-> OpCodes.JMP \cup OpCodes.JSR \cup OpCodes.RTS \cup OpCodes.BRK \cup OpCodes.RTI,
     a |-> {\h00}, hi |-> {\h12, \hFF}, lo |-> {\h34, \hFF}, unknown |-> {},
     cap |-> MaxCycleCall, steps |-> MaxSteps]

\* memory with a byte at one of the jump targets drawn
TargetImage == (\h1234 :> \h77)

InitCall ==
    Harness([Fresh EXCEPT
        !.memory = {new(TRUE).memory, TargetImage},
        !.program_counter = {\h0020, \hAB01, \hFFFC, \hFFFD, \hFFFE},
        !.stack_pointer = {\hFF, \h80, \h02, \h00},
        !.processor_status =
            {Status({}), Status({"carry", "negative"}),
             Status({"carry", "zero", "interrupt", "decimal", "overflow", "negative"})}])

NextCall ==
       JMP(CallInputs) \/ JSR(CallInputs) \/ RTS(CallInputs)
    \/ BRK(CallInputs) \/ RTI(CallInputs)

SpecCall == InitCall /\ [][NextCall]_vars

\* C4: JSR at PC = P to any target completes and adds 6 cycles; RTS after it
\* completes, adds 6 cycles and leaves PC = (P + 3) mod 65536 and the stack
\* pointer as it was before the JSR.
C4_JsrRtsRoundTrip ==
    /\ Executed(OpCodes.JSR) =>
        /\ fault = "none"
        /\ cycle = Before.cycle + 6
    /\ ExecutedPair(OpCodes.JSR, OpCodes.RTS) =>
        /\ fault = "none"
        /\ cycle = Before.cycle + 6
        /\ program_counter = (history[1].before.program_counter + 3) % 65536
        /\ stack_pointer = history[1].before.stack_pointer

\* C5: after JMP-absolute or JSR with operand bytes [hi, lo] the program
\* counter is hi * 256 + lo, whatever memory holds; JMP-absolute adds 3 cycles.
C5_JumpTarget ==
    Executed(OpCodes.JMP \cup OpCodes.JSR) =>
        /\ fault = "none"
        /\ program_counter = Last.inst.arguments[1] * 256 + Last.inst.arguments[2]
        /\ Last.inst.op_code \in OpCodes.JMP => cycle = Before.cycle + 3

\* C6: after BRK at PC = P with room for three bytes on the stack, PC is
\* 0xFFFE, interrupt-disable is set, 7 cycles were added, the stack pointer is
\* 3 lower, and the three bytes above it are the status byte of the flags
\* before the BRK (bits 4 and 5 set), then the low byte and the high byte of
\* P + 2.
C6_Brk ==
    (Executed(OpCodes.BRK) /\ Before.stack_pointer >= 3) =>
        LET ret == (Before.program_counter + 2) % 65536
            top(k) == Read(memory, 256 + ((stack_pointer + k) % 256))
        IN  /\ fault = "none"
            /\ program_counter = 65534
            /\ InterruptDisable
            /\ cycle = Before.cycle + 7
            /\ stack_pointer = (Before.stack_pointer - 3) % 256
            /\ top(1) = 48 + 128 * B(get_flag_negative(Before))
                           + 64 * B(get_flag_overflow(Before))
                           + 8 * B(get_flag_decimal(Before))
                           + 4 * B(get_flag_interrupt(Before))
                           + 2 * B(get_flag_zero(Before))
                           + B(get_flag_carry(Before))
            /\ top(2) = ret % 256
            /\ top(3) = ret \div 256

---------------------------------------------------------------------------
(* SpecIndexed: the reads with Absolute,X and Absolute,Y addressing, with    *)
(* and without a page crossing, and at the top of the address space.         *)

MaxCycleIndexed == 1

\* the opcodes that read with Absolute,X or Absolute,Y addressing
AbsoluteXReads == {\h7D, \h3D, \hDD, \h5D, \hBD, \hBC, \h1D, \hFD}
AbsoluteYReads == {\h79, \h39, \hD9, \h59, \hB9, \hBE, \h19, \hF9}

IndexedInputs ==
    [ops |-> AbsoluteXReads \cup AbsoluteYReads, a |-> {},
     hi |-> {\h00, \h11, \hFF}, lo |-> {\h45, \hF0, \hFF}, unknown |-> {},
     cap |-> MaxCycleIndexed, steps |-> MaxSteps]

InitIndexed ==
    Harness([Fresh EXCEPT !.index_x = {\h01, \h0F, \h10, \hF0},
                          !.index_y = {\h01, \h0F, \h10, \hF0}])

NextIndexed ==
       ADC(IndexedInputs) \/ AND(IndexedInputs) \/ CMP(IndexedInputs)
    \/ EOR(IndexedInputs) \/ LDA(IndexedInputs) \/ LDX(IndexedInputs)
    \/ LDY(IndexedInputs) \/ ORA(IndexedInputs) \/ SBC(IndexedInputs)

SpecIndexed == InitIndexed /\ [][NextIndexed]_vars

\* C9: a read with Absolute,X or Absolute,Y addressing of base address B and
\* index i completes and adds 4 cycles, plus 1 iff the high byte of
\* (B + i) mod 65536 differs from the high byte of B.
C9_PageCrossPenalty ==
    Executed(AbsoluteXReads \cup AbsoluteYReads) =>
        LET base == Last.inst.arguments[1] * 256 + Last.inst.arguments[2]
            i == IF Last.inst.op_code \in AbsoluteXReads
                 THEN Before.index_x ELSE Before.index_y
        IN  /\ fault = "none"
            /\ cycle = Before.cycle + 4
                       + B(Page((base + i) % 65536) # Page(base))

---------------------------------------------------------------------------
(* Claims about every instruction, under Spec *)

\* C11: an instruction with an opcode of the dispatch table other than 0x6C
\* completes without a fault, whatever its operand bytes and the processor
\* state: wraparound of an index, the stack pointer, a register, the program
\* counter or an address is never an error.
C11_NoFault ==
    Executed(DispatchTable \ OpCodes.JMP_INDIRECT) => fault = "none"

---------------------------------------------------------------------------
(* SpecMemory: a store to an absolute address and a load from one, at the    *)
(* bottom, in the middle and at the top of the address space.                *)

MaxCycleMemory == 5

STA(u) == Running(u) /\ \E inst \in Instructions(OpCodes.STA, u) : Execute(inst)

MemoryInputs ==
    [ops |-> {\h8D, \hAD}, a |-> {}, hi |-> {\h00, \h12, \hFF},
     lo |-> {\h00, \h34, \hFF}, unknown |-> {}, cap |-> MaxCycleMemory,
     steps |-> MaxSteps]

InitMemory ==
    Harness([Fresh EXCEPT !.memory = {new(TRUE).memory, TargetImage},
                          !.accumulator = {\h00, \h5A, \h80, \hFF}])

NextMemory == STA(MemoryInputs) \/ LDA(MemoryInputs)

SpecMemory == InitMemory /\ [][NextMemory]_vars

\* C12: STA absolute to any address a in 0x0000..0xFFFF with accumulator v
\* completes and leaves v in the cell a; LDA absolute from a right after it
\* completes and leaves the accumulator equal to v.
C12_EveryAddress ==
    /\ Executed({\h8D}) =>
        /\ fault = "none"
        /\ Read(memory, get_absolute_addr(Last.inst)) = Before.accumulator
    /\ (/\ ExecutedPair({\h8D}, {\hAD})
        /\ history[1].inst.arguments = history[2].inst.arguments) =>
        /\ fault = "none"
        /\ accumulator = history[1].before.accumulator

---------------------------------------------------------------------------
(* SpecStatus: the status byte, pushed by PHP and BRK and pulled by PLP and  *)
(* RTI, for every combination of the six flags.                              *)

MaxCycleStatus == 8

StatusInputs ==
    [ops |-> OpCodes.PHP \cup OpCodes.PLP \cup OpCodes.BRK \cup OpCodes.RTI,
     a |-> {\h00}, hi |-> {}, lo |-> {}, unknown |-> {}, cap |-> MaxCycleStatus,
     steps |-> MaxSteps]

FlagNames == {"carry", "zero", "interrupt", "decimal", "overflow", "negative"}

\* a stack page with a status byte that has bit 2 set where a pull at stack
\* pointer 0x80 reads, and a return address above it
StatusImage == (\h0181 :> \h3D) @@ (\h0182 :> \h34) @@ (\h0183 :> \h12)

InitStatus ==
    Harness([Fresh EXCEPT
        !.memory = {new(TRUE).memory, StatusImage},
        !.stack_pointer = {\hFF, \h80},
        !.processor_status = {Status(S) : S \in SUBSET FlagNames}])

NextStatus ==
       PHP(StatusInputs) \/ PLP(StatusInputs) \/ BRK(StatusInputs)
    \/ RTI(StatusInputs)

SpecStatus == InitStatus /\ [][NextStatus]_vars

\* the carry, zero, decimal, overflow and negative flags of a processor
FiveFlags(c) ==
    <<get_flag_carry(c), get_flag_zero(c), get_flag_decimal(c),
      get_flag_overflow(c), get_flag_negative(c)>>

\* C13: PHP then PLP leaves carry, zero, decimal, overflow and negative as
\* they were before the PHP, for every combination of them; so does BRK then
\* RTI.
C13_StatusRoundTrip ==
    (/\ \/ ExecutedPair(OpCodes.PHP, OpCodes.PLP)
        \/ ExecutedPair(OpCodes.BRK, OpCodes.RTI)
     /\ fault = "none") =>
        FiveFlags(Cpu) = FiveFlags(history[1].before)

\* the interrupt-disable flag an instruction works with: the pending change,
\* when there is one, is applied before the instruction
InterruptDisableAtStart(c) ==
    IF c.change_interrupt_disable_flag = -1
    THEN get_flag_interrupt(c)
    ELSE c.change_interrupt_disable_flag # 0

\* the status byte of the flags of c: bits 4 and 5 set, carry in bit 0, zero in
\* bit 1, interrupt-disable in bit 2, decimal in bit 3, overflow in bit 6,
\* negative in bit 7
Encoded(c) ==
    16 + 32 + B(get_flag_carry(c)) + 2 * B(get_flag_zero(c))
    + 4 * B(InterruptDisableAtStart(c)) + 8 * B(get_flag_decimal(c))
    + 64 * B(get_flag_overflow(c)) + 128 * B(get_flag_negative(c))

\* C14: the byte PHP pushes, and the third byte BRK pushes, is the encoded
\* status byte of the flags: bits 4 and 5 are 1 and each flag is in its bit.
C14_EncodedStatus ==
    /\ (Executed(OpCodes.PHP) /\ fault = "none") =>
          Read(memory, 256 + Before.stack_pointer) = Encoded(Before)
    /\ (Executed(OpCodes.BRK) /\ fault = "none") =>
          Read(memory, 256 + ((Before.stack_pointer - 2) % 256)) = Encoded(Before)

\* PHP with zero, decimal and negative set pushes 0xBA; BRK with all six
\* flags set pushes 0xFF
C14_Witness ==
    \/ /\ Executed(OpCodes.PHP) /\ fault = "none"
       /\ Before.processor_status = Status({"zero", "decimal", "negative"})
       /\ Read(memory, 256 + Before.stack_pointer) = \hBA
    \/ /\ Executed(OpCodes.BRK) /\ fault = "none"
       /\ Before.processor_status = Status(FlagNames)
       /\ Read(memory, 256 + ((Before.stack_pointer - 2) % 256)) = \hFF

\* the byte a pull from the stack of c reads
Pulled(c) == Read(c.memory, 256 + ((c.stack_pointer + 1) % 256))

\* C15: PLP stages bit 2 of the byte it pulls as the pending interrupt-disable
\* value and leaves the flag itself as it was; RTI writes bit 2 of the byte
\* it pulls to the flag at once and leaves nothing pending.
C15_PulledInterruptDisable ==
    /\ (Executed(OpCodes.PLP) /\ fault = "none") =>
        /\ change_interrupt_disable_flag = Bit(Pulled(Before), 2)
        /\ InterruptDisable = InterruptDisableAtStart(Before)
    /\ (Executed(OpCodes.RTI) /\ fault = "none") =>
        /\ InterruptDisable = (Bit(Pulled(Before), 2) = 1)
        /\ change_interrupt_disable_flag = -1

---------------------------------------------------------------------------
(* Claims about BRK and RTI together, under SpecCall *)

\* the k-th byte above the stack pointer of c
Above(c, k) == Read(c.memory, 256 + ((c.stack_pointer + k) % 256))

\* C16: BRK at PC = P with room for three bytes on the stack completes, and
\* RTI right after it leaves PC = (P + 2) mod 65536 and the stack pointer as
\* it was before the BRK; RTI pulls the status byte first, then the low and
\* then the high address byte, and adds 6 cycles.
C16_BrkRtiRoundTrip ==
    /\ (Executed(OpCodes.BRK) /\ Before.stack_pointer >= 3) => fault = "none"
    /\ (ExecutedPair(OpCodes.BRK, OpCodes.RTI)
            /\ history[1].before.stack_pointer >= 3) =>
        /\ fault = "none"
        /\ program_counter = (history[1].before.program_counter + 2) % 65536
        /\ stack_pointer = history[1].before.stack_pointer
    /\ (Executed(OpCodes.RTI) /\ fault = "none") =>
        /\ Carry = (Bit(Above(Before, 1), 0) = 1)
        /\ program_counter = Above(Before, 3) * 256 + Above(Before, 2)
        /\ cycle = Before.cycle + 6

---------------------------------------------------------------------------
(* SpecDecimal: ADC and SBC with the decimal flag set and clear *)

MaxCycleDecimal == 1

DecimalInputs ==
    [ops |-> {\h69, \hE9}, a |-> Byte, hi |-> {}, lo |-> {}, unknown |-> {},
     cap |-> MaxCycleDecimal, steps |-> MaxSteps]

InitDecimal ==
    Harness([Fresh EXCEPT
        !.accumulator = {\h00, \h01, \h09, \h0A, \h0F, \h10, \h19, \h50,
                         \h7F, \h80, \h81, \h99, \h9A, \hF0, \hFE, \hFF},
        !.processor_status =
            {Status({}), Status({"carry"}), Status({"decimal"}),
             Status({"carry", "decimal"})}])

NextDecimal == ADC(DecimalInputs) \/ SBC(DecimalInputs)

SpecDecimal == InitDecimal /\ [][NextDecimal]_vars

\* the processor c with its decimal flag the other way round
OtherDecimal(c) == set_flag_decimal(c, ~get_flag_decimal(c))

\* C17: ADC and SBC give the accumulator, carry, zero, overflow and negative
\* they would have given with the decimal flag the other way round, and leave
\* the decimal flag as it was.
C17_DecimalIgnored ==
    Executed({\h69, \hE9}) =>
        LET twin == execute_instruction(OtherDecimal(Before), Last.inst)
        IN  /\ twin.fault = fault
            /\ twin.accumulator = accumulator
            /\ get_flag_carry(twin) = Carry
            /\ get_flag_zero(twin) = Zero
            /\ get_flag_overflow(twin) = Overflow
            /\ get_flag_negative(twin) = Negative
            /\ Decimal = get_flag_decimal(Before)
            /\ get_flag_decimal(twin) = ~get_flag_decimal(Before)

\* 0x09 + 0x01 with the decimal flag set is 0x0A, not 0x10; 0x10 - 0x01 with
\* the decimal flag set is 0x0F, not 0x09
C17_Witness ==
    /\ Executed({\h69, \hE9})
    /\ get_flag_decimal(Before) /\ get_flag_carry(Before) = (Last.inst.op_code = \hE9)
    /\ Last.inst.arguments[1] = 1
    /\ \/ Executed({\h69}) /\ Before.accumulator = \h09 /\ accumulator = \h0A
       \/ Executed({\hE9}) /\ Before.accumulator = \h10 /\ accumulator = \h0F
    /\ Decimal

---------------------------------------------------------------------------
(* Claims about the processor Cpu::new() makes, under Spec *)

\* C18: before any instruction, the accumulator, index_x and index_y are 0,
\* every status flag is clear, the stack pointer is 0xFF, the program counter
\* and the cycle counter are 0, every memory byte is 0 and no change of the
\* interrupt-disable flag is pending.
C18_NewProcessor ==
    executed = 0 =>
        /\ accumulator = 0 /\ index_x = 0 /\ index_y = 0
        /\ ~Carry /\ ~Zero /\ ~InterruptDisable /\ ~Decimal /\ ~Overflow /\ ~Negative
        /\ stack_pointer = 255
        /\ program_counter = 0
        /\ cycle = 0
        /\ \A a \in {0, 1, 255, 256, 511, 4660, 65534} : Read(memory, a) = 0
        /\ DOMAIN memory = {}
        /\ change_interrupt_disable_flag = -1
        /\ fault = "none"

\* the processor before any instruction
C18_Witness == executed = 0 /\ history = <<>> /\ stack_pointer = 255 /\ cycle = 0


\* C19: the cycle counter never decreases, and every instruction of the
\* dispatch table that completes, PLP included, increases it by at least one.
C19_CycleIncreases ==
    Executed(DispatchTable) =>
        /\ cycle >= Before.cycle
        /\ fault = "none" => cycle > Before.cycle

---------------------------------------------------------------------------
(* SpecCounter: every instruction that is not a control-flow instruction,    *)
(* from program counters at the bottom and at the top of the address space.  *)

MaxCycleCounter == 1

CounterInputs ==
    [ops |-> DispatchTable \ BRANCHING_OP_CODES, a |-> {\h00, \h80}, hi |-> {\h00},
     lo |-> {\h10}, unknown |-> {}, cap |-> MaxCycleCounter, steps |-> MaxSteps]

InitCounter ==
    Harness([Fresh EXCEPT
        !.program_counter = {\h0000, \h00FF, \hFFFD, \hFFFE, \hFFFF},
        !.index_x = {\h00, \hFF},
        !.processor_status = {Status({}), Status(FlagNames)}])

NextCounter == KNOWN(CounterInputs)

SpecCounter == InitCounter /\ [][NextCounter]_vars

\* C20: after an instruction that is not a branch, BRK, JMP, JSR, RTI or RTS
\* completes, the program counter is its previous value plus the
\* instruction's size, modulo 65536.
C20_ProgramCounterAdvance ==
    (Executed(DispatchTable \ BRANCHING_OP_CODES) /\ fault = "none") =>
        program_counter = (Before.program_counter + Last.inst.size) % 65536

\* a two-byte instruction at 0xFFFF completes and leaves the program counter
\* at 0x0001
C20_Witness ==
    /\ Executed(OpCodes.LDA) /\ fault = "none"
    /\ Last.inst.size = 2
    /\ Before.program_counter = 65535
    /\ program_counter = 1

---------------------------------------------------------------------------
(* Claims about SBC, under SpecDecimal *)

\* C21: after SBC #M with accumulator A and carry-in c, carry is set iff no
\* borrow occurred, that is iff A + (255 - M) + c > 255.
C21_SbcCarry ==
    Executed({\hE9}) =>
        LET A == Before.accumulator
            M == Last.inst.arguments[1]
            r == A + (255 - M) + B(get_flag_carry(Before))
        IN  Carry <=> (r > 255)

\* C22: after SBC #M with accumulator A and carry-in c, the accumulator is
\* (A + (255 - M) + c) mod 256, zero is set iff that value is 0 and negative
\* is its bit 7.
C22_SbcResult ==
    Executed({\hE9}) =>
        LET A == Before.accumulator
            M == Last.inst.arguments[1]
            r == (A + (255 - M) + B(get_flag_carry(Before))) % 256
        IN  /\ accumulator = r
            /\ Zero <=> (r = 0)
            /\ Negative <=> (Bit(r, 7) = 1)

\* C23: after SBC #M with accumulator A and carry-in c, overflow is set iff
\* ((r ^ A) & (r ^ m) & 0x80) # 0, where m = 255 - M is the operand as added
\* and r = A + m + c.
C23_SbcOverflow ==
    Executed({\hE9}) =>
        LET A == Before.accumulator
            m == 255 - Last.inst.arguments[1]
            r == A + m + B(get_flag_carry(Before))
        IN  Overflow <=> (Bit(r, 7) # Bit(A, 7) /\ Bit(r, 7) # Bit(m, 7))

---------------------------------------------------------------------------
(* Claims about backward branches, under SpecBranch *)

\* C27: a taken branch whose offset byte is 0x80..0xFF completes without
\* fault, leaves PC at (PC + instruction.size + offset byte - 256) mod 65536
\* and adds 3 cycles when that is in the page of the branch instruction's PC,
\* 4 when it is in another page.
C27_BackwardBranch ==
    (/\ Executed(OpCodes.BRANCH)
     /\ BranchCondition(Before, Last.inst.op_code)
     /\ Last.inst.arguments[1] >= 128) =>
        /\ fault = "none"
        /\ program_counter =
             (Before.program_counter + Last.inst.size
              + Last.inst.arguments[1] - 256) % 65536
        /\ cycle = Before.cycle
                   + (IF Page(program_counter) = Page(Before.program_counter)
                      THEN 3 ELSE 4)

---------------------------------------------------------------------------
(* SpecRegister: the shifts and rotates of the accumulator and the register  *)
(* transfers, one instruction from registers and flags set as a test's init  *)
(* closure would.                                                            *)

MaxCycleRegister == 1

RegisterInputs ==
    [ops |-> {\h0A, \h4A, \h2A, \h6A}
             \cup OpCodes.TAX \cup OpCodes.TAY \cup OpCodes.TSX
             \cup OpCodes.TXA \cup OpCodes.TXS \cup OpCodes.TYA,
     a |-> {}, hi |-> {}, lo |-> {}, unknown |-> {},
     cap |-> MaxCycleRegister, steps |-> MaxSteps]

InitRegister ==
    Harness([Fresh EXCEPT
        !.accumulator = {\h00, \h01, \h02, \h40, \h55, \h7F, \h80, \h81, \hAA,
                         \hFE, \hFF},
        !.index_x = {\h00, \h01, \h7F, \h80, \hFF},
        !.index_y = {\h00, \h01, \h80, \hFF},
        !.stack_pointer = {\h00, \h7F, \hFF},
        !.processor_status = {Status({}), Status({"carry"}), Status(FlagNames)}])

NextRegister == KNOWN(RegisterInputs)

SpecRegister == InitRegister /\ [][NextRegister]_vars

\* C24: ASL, LSR, ROL and ROR of the accumulator v with carry-in c leave the
\* bit shifted out in the carry flag (bit 7 of v for ASL and ROL, bit 0 for
\* LSR and ROR) and v<<1, v>>1, (v<<1)|c, (v>>1)|(c<<7), truncated to 8 bits,
\* in the accumulator.
C24_ShiftRotate ==
    Executed({\h0A, \h4A, \h2A, \h6A}) =>
        LET v == Before.accumulator
            cin == B(get_flag_carry(Before))
            op == Last.inst.op_code
        IN  /\ fault = "none"
            /\ Carry <=> (IF op \in {\h0A, \h2A} THEN Bit(v, 7) ELSE Bit(v, 0)) = 1
            /\ accumulator =
                 CASE op = \h0A -> (v * 2) % 256
                   [] op = \h4A -> v \div 2
                   [] op = \h2A -> ((v * 2) % 256) + cin
                   [] op = \h6A -> (v \div 2) + (cin * 128)

\* C28: TAX, TAY, TSX, TXA and TYA copy the source register to the
\* destination and set zero and negative from the value transferred; TXS
\* copies index_x to the stack pointer and changes no flag; each adds 2
\* cycles.
C28_Transfers ==
    Executed({\hAA, \hA8, \hBA, \h8A, \h9A, \h98}) =>
        LET op == Last.inst.op_code
            value == CASE op \in {\hAA, \hA8} -> Before.accumulator
                       [] op = \hBA -> Before.stack_pointer
                       [] op \in {\h8A, \h9A} -> Before.index_x
                       [] op = \h98 -> Before.index_y
            dest == CASE op \in {\hAA, \hBA} -> index_x
                      [] op = \hA8 -> index_y
                      [] op \in {\h8A, \h98} -> accumulator
                      [] op = \h9A -> stack_pointer
        IN  /\ fault = "none"
            /\ dest = value
            /\ cycle = Before.cycle + 2
            /\ IF op = \h9A THEN processor_status = Before.processor_status
               ELSE /\ Zero <=> (value = 0)
                    /\ Negative <=> (Bit(value, 7) = 1)

---------------------------------------------------------------------------
(* SpecZeroPage: instructions that address the zero page, directly, indexed  *)
(* and through a pointer, and the increments and decrements, one instruction *)
(* from registers, flags and a zero page set as a test's init closure would. *)

MaxCycleZeroPage == 1

ZeroPageInputs ==
    [ops |-> OpCodes.INX \cup OpCodes.INY \cup OpCodes.DEX \cup OpCodes.DEY
             \cup {\hE6, \hC6, \h24, \hA5, \hB5, \hB6, \h85, \h95, \h96,
                   \hA1, \hB1, \h81, \h91},
     a |-> {\h00, \h0F, \h7F, \hF0, \hFE, \hFF}, hi |-> {}, lo |-> {},
     unknown |-> {}, cap |-> MaxCycleZeroPage, steps |-> MaxSteps]

\* pointers 0x1234 at 0x00, 0xFFF0 at 0xFE and 0x34FF at 0xFF (its high byte
\* is the cell 0x00), and operands 0x40, 0xC0, 0xFF, 0x01
ZeroPageImage ==
    (\h00 :> \h34) @@ (\h01 :> \h12) @@ (\h0F :> \h40) @@ (\h10 :> \hC0)
    @@ (\h7F :> \hFF) @@ (\h80 :> \h01) @@ (\hFE :> \hF0) @@ (\hFF :> \hFF)
    @@ (\h1234 :> \h77) @@ (\h34FF :> \h99)

InitZeroPage ==
    Harness([Fresh EXCEPT
        !.memory = {<<>>, ZeroPageImage},
        !.accumulator = {\h00, \h3F, \h80, \hFF},
        !.index_x = {\h00, \h01, \h0F, \hFF},
        !.index_y = {\h00, \h0F, \hFF},
        !.processor_status = {Status({}), Status(FlagNames)}])

NextZeroPage == KNOWN(ZeroPageInputs)

SpecZeroPage == InitZeroPage /\ [][NextZeroPage]_vars

\* C25: BIT on accumulator A and the memory operand M leaves bit 6 of M in the
\* overflow flag, sets zero iff A & M = 0, and leaves the accumulator as it
\* was.  (The operand 0xFF is left to C26: the cell read for it is another.)
C25_Bit ==
    (Executed({\h24}) /\ Last.inst.arguments[1] # 255) =>
        LET A == Before.accumulator
            M == Read(Before.memory, Last.inst.arguments[1])
        IN  /\ fault = "none"
            /\ Overflow <=> (Bit(M, 6) = 1)
            /\ Zero <=> (BitAnd(A, M) = 0)
            /\ accumulator = A

\* the register a zero-page store writes, on processor c
Stored(c, op) == IF op = \h96 THEN c.index_x ELSE c.accumulator

\* C26: zero-page addressing uses the cell operand mod 256, and zero-page,X
\* and zero-page,Y the cell (operand + index) mod 256: a load takes its value
\* from that cell and a store writes that cell and no other.
C26_ZeroPageAddress ==
    Executed({\hA5, \hB5, \hB6, \h85, \h95, \h96}) =>
        LET op == Last.inst.op_code
            operand == Last.inst.arguments[1]
            index == CASE op \in {\hA5, \h85} -> 0
                       [] op \in {\hB5, \h95} -> Before.index_x
                       [] op \in {\hB6, \h96} -> Before.index_y
            addr == (operand + index) % 256
        IN  /\ fault = "none"
            /\ op \in {\hA5, \hB5} => accumulator = Read(Before.memory, addr)
            /\ op = \hB6 => index_x = Read(Before.memory, addr)
            /\ op \in {\h85, \h95, \h96} =>
                   memory = Store(Before.memory, addr, Stored(Before, op))

\* C29: INX, INY, DEX, DEY and INC and DEC of a zero-page cell raise no fault
\* and leave (v + 1) mod 256 or (v - 1) mod 256 in the register or cell, with
\* zero set iff that is 0 and negative iff its bit 7 is 1.  (The cell 0xFF is
\* left to C26.)
C29_IncrementWraps ==
    (/\ Executed({\hE8, \hC8, \hCA, \h88, \hE6, \hC6})
     /\ Last.inst.size = 2 => Last.inst.arguments[1] # 255) =>
        LET op == Last.inst.op_code
            cell == Last.inst.arguments[1]
            v == CASE op \in {\hE8, \hCA} -> Before.index_x
                   [] op \in {\hC8, \h88} -> Before.index_y
                   [] op \in {\hE6, \hC6} -> Read(Before.memory, cell)
            r == IF op \in {\hE8, \hC8, \hE6} THEN (v + 1) % 256 ELSE (v + 255) % 256
            now == CASE op \in {\hE8, \hCA} -> index_x
                     [] op \in {\hC8, \h88} -> index_y
                     [] op \in {\hE6, \hC6} -> Read(memory, cell)
        IN  /\ fault = "none"
            /\ now = r
            /\ Zero <=> (r = 0)
            /\ Negative <=> (Bit(r, 7) = 1)

\* C30: (Indirect,X) takes its pointer's low byte from the zero-page cell
\* (operand + X) mod 256 and its high byte from (operand + X + 1) mod 256;
\* (Indirect),Y takes the low byte from the cell operand and the high byte
\* from (operand + 1) mod 256 and adds Y modulo 65536; a load takes its value
\* from the cell so addressed and a store writes that cell and no other.
\* (The address 0xFFFF, which the memory array does not hold, is left to C12.)
C30_IndirectAddress ==
    Executed({\hA1, \hB1, \h81, \h91}) =>
        LET op == Last.inst.op_code
            operand == Last.inst.arguments[1]
            base == IF op \in {\hA1, \h81}
                    THEN (operand + Before.index_x) % 256 ELSE operand
            pointer == Read(Before.memory, (base + 1) % 256) * 256
                       + Read(Before.memory, base)
            addr == IF op \in {\hA1, \h81} THEN pointer
                    ELSE (pointer + Before.index_y) % 65536
        IN  addr # 65535 =>
            /\ fault = "none"
            /\ op \in {\hA1, \hB1} => accumulator = Read(Before.memory, addr)
            /\ op \in {\h81, \h91} =>
                   memory = Store(Before.memory, addr, Before.accumulator)

---------------------------------------------------------------------------
(* SpecCycles: what instructions add to the cycle counter: the reads through *)
(* (Indirect),Y, the absolute reads, the shifts and rotates in every         *)
(* addressing mode and the indexed stores, one instruction from index        *)
(* registers and pointers set as a test's init closure would.                *)

MaxCycleCycles == 1

IndirectYReads == {\h71, \h31, \hD1, \h51, \hB1, \h11, \hF1}
AbsoluteReads ==
    {\h6D, \h2D, \h2C, \hCD, \hEC, \hCC, \h4D, \hAD, \hAE, \hAC, \h0D, \hED}
Shifts == OpCodes.ASL \cup OpCodes.LSR \cup OpCodes.ROL \cup OpCodes.ROR
IndexedWrites == {\h1E, \h5E, \h3E, \h7E, \h9D, \h99, \h91}

CyclesInputs ==
    [ops |-> IndirectYReads \cup AbsoluteReads \cup Shifts \cup IndexedWrites,
     a |-> {\h00, \h10, \h80, \hFE}, hi |-> {\h00, \h12, \hFF},
     lo |-> {\h00, \hF0, \hFF}, unknown |-> {},
     cap |-> MaxCycleCycles, steps |-> MaxSteps]

\* pointers 0x12F0 at 0x00, 0xFFF0 at 0x10 and 0x0280 at 0xFE
CyclesImage ==
    (\h00 :> \hF0) @@ (\h01 :> \h12) @@ (\h10 :> \hF0) @@ (\h11 :> \hFF)
    @@ (\hFE :> \h80) @@ (\hFF :> \h02) @@ (\h12F0 :> \h81) @@ (\h1300 :> \h7E)

InitCycles ==
    Harness([Fresh EXCEPT
        !.memory = {<<>>, CyclesImage},
        !.accumulator = {\h00, \hFF},
        !.index_x = {\h00, \h01, \h10},
        !.index_y = {\h00, \h0F, \h10}])

NextCycles == KNOWN(CyclesInputs)

SpecCycles == InitCycles /\ [][NextCycles]_vars

\* C31: a read through (Indirect),Y with zero-page pointer P adds 5 cycles,
\* and one more iff the high byte of (P + Y) mod 65536 differs from the high
\* byte of P.
C31_IndirectYCycles ==
    Executed(IndirectYReads) =>
        LET operand == Last.inst.arguments[1]
            P == Read(Before.memory, (operand + 1) % 256) * 256
                 + Read(Before.memory, operand)
            addr == (P + Before.index_y) % 65536
        IN  /\ fault = "none"
            /\ cycle = Before.cycle + 5 + (IF Page(addr) # Page(P) THEN 1 ELSE 0)

\* the cycles the arm of an indexed write adds
FixedCost(op) ==
    CASE op = \h1E -> 7
      [] op \in {\h5E, \h9D, \h99} -> 5
      [] op \in {\h3E, \h7E, \h91} -> 6

\* C32: ASL, LSR, ROL and ROR with Absolute,X and STA with Absolute,X,
\* Absolute,Y and (Indirect),Y add one number of cycles each, whatever the
\* base address and the index, page boundary crossed or not.
C32_WriteCycles ==
    Executed(IndexedWrites) =>
        /\ fault = "none"
        /\ cycle = Before.cycle + FixedCost(Last.inst.op_code)

\* C33: a read with plain Absolute addressing that completes adds exactly 4
\* cycles.
C33_AbsoluteCycles ==
    (Executed(AbsoluteReads) /\ fault = "none") => cycle = Before.cycle + 4

\* the cycles 6502 hardware takes for a shift or rotate
HardwareCost(op) ==
    CASE op \in {\h0A, \h4A, \h2A, \h6A} -> 2
      [] op \in {\h06, \h46, \h26, \h66} -> 5
      [] op \in {\h16, \h56, \h36, \h76} -> 6
      [] op \in {\h0E, \h4E, \h2E, \h6E} -> 6
      [] op \in {\h1E, \h5E, \h3E, \h7E} -> 7

\* C34: ASL, LSR, ROL and ROR that complete add 2 cycles on the accumulator,
\* 5 on zero-page, 6 on zero-page,X, 6 on absolute and 7 on absolute,X.
C34_ShiftCycles ==
    (Executed(Shifts) /\ fault = "none") =>
        cycle = Before.cycle + HardwareCost(Last.inst.op_code)

---------------------------------------------------------------------------
(* Claims about the life of a pending interrupt-disable change, under        *)
(* SpecStack                                                                 *)

\* C35: a pending interrupt-disable change lives for one instruction: the
\* instruction that starts with a change pending writes it to the flag, and
\* after a completed instruction other than CLI, SEI and PLP no change is
\* pending; after SEI then CLI the flag reads true, and after the NOP that
\* follows a CLI it reads false.
C35_PendingLifetime ==
    /\ (Executed(StackInputs.ops) /\ Before.change_interrupt_disable_flag # -1) =>
           InterruptDisable = (Before.change_interrupt_disable_flag # 0)
    /\ (Executed(FlagKeepers) /\ fault = "none") =>
           change_interrupt_disable_flag = -1
    /\ ExecutedPair(OpCodes.SEI, OpCodes.CLI) => InterruptDisable
    /\ ExecutedPair(OpCodes.CLI, OpCodes.NOP) =>
           ~InterruptDisable /\ change_interrupt_disable_flag = -1

\* SEI, CLI, NOP from a clear flag: true was pending when CLI started, the
\* flag was set when NOP started and is clear after it
C35_Witness ==
    /\ executed = 3
    /\ ExecutedPair(OpCodes.CLI, OpCodes.NOP)
    /\ ~get_flag_interrupt(history[1].before)
    /\ history[1].before.change_interrupt_disable_flag = 1
    /\ get_flag_interrupt(history[2].before)
    /\ ~InterruptDisable
    /\ change_interrupt_disable_flag = -1

---------------------------------------------------------------------------
(* SpecFrame: what instructions leave alone: the stack instructions, the     *)
(* compares, BIT, NOP and the branches, the stores and the read-modify-write *)
(* instructions on memory, one instruction from registers, a stack pointer,  *)
(* a pending interrupt-disable change and a memory set as a test's init      *)
(* closure, or an SEI before the instruction, would.                         *)

MaxCycleFrame == 1

StackOps ==
    OpCodes.PHA \cup OpCodes.PHP \cup OpCodes.PLA \cup OpCodes.PLP
    \cup OpCodes.JSR \cup OpCodes.RTS \cup OpCodes.BRK \cup OpCodes.RTI
Observers ==
    OpCodes.CMP \cup OpCodes.CPX \cup OpCodes.CPY \cup OpCodes.BIT
    \cup OpCodes.NOP \cup OpCodes.BRANCH
Stores == OpCodes.STA \cup OpCodes.STX \cup OpCodes.STY
ReadModifyWrites ==
    ((OpCodes.ASL \cup OpCodes.LSR \cup OpCodes.ROL \cup OpCodes.ROR)
        \ {\h0A, \h4A, \h2A, \h6A})
    \cup OpCodes.INC \cup OpCodes.DEC

FrameInputs ==
    [ops |-> StackOps \cup Observers \cup Stores \cup ReadModifyWrites,
     a |-> {\h10, \hFF}, hi |-> {\h00, \hFF}, lo |-> {\h10, \hFF},
     unknown |-> {}, cap |-> MaxCycleFrame, steps |-> MaxSteps]

\* bytes in the zero page, in the stack page where a pull at the drawn stack
\* pointers reads, and at 0xFF10
FrameImage ==
    (\h00 :> \h81) @@ (\h10 :> \h40) @@ (\h11 :> \h7F) @@ (\hFF :> \h01)
    @@ (\h0100 :> \h12) @@ (\h0101 :> \h34) @@ (\h0102 :> \h56)
    @@ (\h0103 :> \h02) @@ (\h0181 :> \h3D) @@ (\h0182 :> \h34)
    @@ (\h0183 :> \h12) @@ (\h01FF :> \hAB) @@ (\hFF10 :> \hFE)
    @@ (\hFF11 :> \h03)

InitFrame ==
    Harness([Fresh EXCEPT
        !.memory = {FrameImage},
        !.program_counter = {\hAB01},
        !.stack_pointer = {\h00, \h01, \h02, \h80, \hFE, \hFF},
        !.accumulator = {\h5A, \hFF},
        !.index_x = {\h00, \h01},
        !.index_y = {\h00, \h10},
        !.processor_status = {Status({}), Status(FlagNames)},
        !.change_interrupt_disable_flag = {-1, 1}])

NextFrame == KNOWN(FrameInputs)

SpecFrame == InitFrame /\ [][NextFrame]_vars

\* the cells where memory is not what it was before the last instruction
Changed == {a \in DOMAIN memory \cup DOMAIN Before.memory :
                Read(memory, a) # Read(Before.memory, a)}

\* the cell k pushes below the stack pointer of c
Below(c, k) == 256 + ((c.stack_pointer + 256 - k) % 256)

\* C36: PHA, PHP, PLA, PLP, JSR, RTS, BRK and RTI change no memory cell
\* outside 0x0100..0x01FF at any stack pointer; each push changes the one
\* cell 0x0100 + stack_pointer and no other; each pull reads the cell
\* 0x0100 + (stack_pointer + 1) mod 256.
C36_StackConfinement ==
    Executed(StackOps) =>
        LET op == Last.inst.op_code
        IN  /\ Changed \subseteq 256..511
            /\ op \in OpCodes.PHA \cup OpCodes.PHP => Changed \subseteq {Below(Before, 0)}
            /\ op \in OpCodes.PHA =>
                Read(memory, Below(Before, 0)) = Before.accumulator
            /\ op \in OpCodes.JSR =>
                Changed \subseteq {Below(Before, 0), Below(Before, 1)}
            /\ op \in OpCodes.BRK =>
                Changed \subseteq {Below(Before, 0), Below(Before, 1), Below(Before, 2)}
            /\ op \in OpCodes.PLA \cup OpCodes.PLP \cup OpCodes.RTS \cup OpCodes.RTI =>
                Changed = {}
            /\ (op \in OpCodes.PLA /\ fault = "none") =>
                accumulator = Above(Before, 1)
            /\ (op \in OpCodes.RTS /\ fault = "none") =>
                program_counter = (Above(Before, 2) * 256 + Above(Before, 1) + 1) % 65536
            /\ (op \in OpCodes.RTI /\ fault = "none") =>
                program_counter = Above(Before, 3) * 256 + Above(Before, 2)

\* JSR with the stack pointer at 0x00 writes the return address 0xAB03 at
\* 0x0100 and 0x01FF, and PLA with the stack pointer at 0xFF reads 0x0100
C36_Witness ==
    \/ /\ Executed(OpCodes.JSR) /\ fault = "none"
       /\ Before.stack_pointer = 0 /\ stack_pointer = 254
       /\ Changed = {256, 511}
       /\ Read(memory, 256) = \hAB /\ Read(memory, 511) = \h03
    \/ /\ Executed(OpCodes.PLA) /\ fault = "none"
       /\ Before.stack_pointer = 255 /\ stack_pointer = 0
       /\ accumulator = \h12


\* the flags of processor c other than interrupt-disable
ArithmeticFlags(c) ==
    <<get_flag_carry(c), get_flag_zero(c), get_flag_decimal(c),
      get_flag_overflow(c), get_flag_negative(c)>>

\* C37: CMP, CPX, CPY, BIT, NOP and the conditional branches leave the
\* accumulator, index_x, index_y, the stack pointer and every memory byte as
\* they were; the branches and NOP also leave carry, zero, decimal, overflow
\* and negative as they were.
C37_Observers ==
    Executed(Observers) =>
        /\ accumulator = Before.accumulator
        /\ index_x = Before.index_x
        /\ index_y = Before.index_y
        /\ stack_pointer = Before.stack_pointer
        /\ memory = Before.memory
        /\ Executed(OpCodes.NOP \cup OpCodes.BRANCH) =>
               ArithmeticFlags(Cpu) = ArithmeticFlags(Before)

\* BIT $10 with accumulator 0xFF and 0x40 in the cell: the flags change, the
\* accumulator does not
C37_Witness ==
    /\ Executed({\h24}) /\ fault = "none"
    /\ Last.inst.arguments[1] = \h10
    /\ Before.accumulator = \hFF /\ accumulator = \hFF
    /\ Read(memory, \h10) = \h40
    /\ Overflow /\ ~get_flag_overflow(Before)


\* the register a store opcode writes, on processor c
StoredRegister(c, op) ==
    CASE op \in OpCodes.STA -> c.accumulator
      [] op \in OpCodes.STX -> c.index_x
      [] op \in OpCodes.STY -> c.index_y

\* memory is what it was but for at most one cell, which holds value v
OneCell(v) == Cardinality(Changed) <= 1 /\ \A a \in Changed : Read(memory, a) = v

Modified(op, v, cin) ==
    CASE op \in OpCodes.ASL -> (v * 2) % 256
      [] op \in OpCodes.LSR -> v \div 2
      [] op \in OpCodes.ROL -> ((v * 2) % 256) + cin
      [] op \in OpCodes.ROR -> (v \div 2) + (cin * 128)
      [] op \in OpCodes.INC -> (v + 1) % 256
      [] op \in OpCodes.DEC -> (v + 255) % 256

\* C39: ASL, LSR, ROL, ROR, INC and DEC on memory change at most one memory
\* byte, the one they read: its new value is the instruction's result on its
\* old value; the accumulator, index_x and index_y are as they were.
C39_ReadModifyWrite ==
    Executed(ReadModifyWrites) =>
        /\ Cardinality(Changed) <= 1
        /\ \A a \in Changed :
               Read(memory, a) = Modified(Last.inst.op_code, Read(Before.memory, a),
                                          B(get_flag_carry(Before)))
        /\ accumulator = Before.accumulator
        /\ index_x = Before.index_x
        /\ index_y = Before.index_y

\* ROL $10,X with index_x = 1 and 0x7F in the cell 0x11: that cell, and no
\* other, takes 0xFE or 0xFF
C39_Witness ==
    /\ Executed({\h36}) /\ fault = "none"
    /\ Last.inst.arguments[1] = \h10 /\ Before.index_x = 1
    /\ Read(Before.memory, \h11) = \h7F
    /\ Changed = {\h11}
    /\ Read(memory, \h11) \in {\hFE, \hFF}
    /\ Read(memory, \h10) = \h40

---------------------------------------------------------------------------
(* Claims about what a rejected instruction leaves behind, under Spec *)

\* C40: when execute rejects an instruction, for an opcode outside the
\* dispatch table or for JMP-indirect, memory, the accumulator, the index
\* registers, every status flag, the stack pointer, the program counter and
\* the cycle counter are what they were before the call, also when a change
\* of the interrupt-disable flag was pending.
C40_NoEffect ==
    (Executed({\h6C} \cup (Byte \ DispatchTable)) /\ fault \in {"unknown", "unsupported"}) =>
        /\ memory = Before.memory
        /\ accumulator = Before.accumulator
        /\ index_x = Before.index_x
        /\ index_y = Before.index_y
        /\ processor_status = Before.processor_status
        /\ stack_pointer = Before.stack_pointer
        /\ program_counter = Before.program_counter
        /\ cycle = Before.cycle

=============================================================================
